---------------------------- MODULE Spec2Model ----------------------------
(***************************************************************************)
(* A model of the Monte Carlo transmission-risk engine                     *)
(* (calculators/exposure_calculator.py), of the string validators          *)
(* (calculators/validators.py) and of the risk-distribution summariser     *)
(* (calculators/risk_distribution.py).                                     *)
(*                                                                         *)
(* Numbers.  Python and numpy floats are IEEE-754 doubles.  They are       *)
(* modelled as decimal floating-point numbers <<kind, m, e>>:              *)
(*   kind = "f"    the finite value m * 10^e, with m = 0 (and e = 0) or    *)
(*                 1000 <= |m| <= 9999 (four significant digits),          *)
(*   kind = "nan", "pinf", "ninf"   the IEEE special values.               *)
(* Results are truncated to four digits, overflow beyond the double range  *)
(* (about 1.797e308) gives an infinity in numpy arithmetic and an          *)
(* OverflowError in math.exp and in Python's ** operator, and a zero       *)
(* divisor gives inf/nan in numpy arithmetic and a ZeroDivisionError in    *)
(* Python arithmetic, as in the source.                                    *)
(***************************************************************************)
EXTENDS Integers, Sequences, FiniteSets, TLC

(***************************************************************************)
(* Decimal floating point                                                  *)
(***************************************************************************)
MantLimit == 10000

Abs(n) == IF n < 0 THEN -n ELSE n

Sgn(n) == IF n < 0 THEN -1 ELSE IF n = 0 THEN 0 ELSE 1

\* n / d truncated toward zero (d > 0)
TruncDiv(n, d) == Sgn(n) * (Abs(n) \div d)

RECURSIVE Pow10(_)
Pow10(k) == IF k <= 0 THEN 1 ELSE 10 * Pow10(k - 1)

NaN == <<"nan", 0, 0>>

PInf == <<"pinf", 0, 0>>

NInf == <<"ninf", 0, 0>>

Zero == <<"f", 0, 0>>

IsNaN(a) == a[1] = "nan"

IsFin(a) == a[1] = "f"

IsInf(a) == a[1] \in {"pinf", "ninf"}

IsZero(a) == a[1] = "f" /\ a[2] = 0

\* the sign of a value that is not NaN
SignOf(a) == IF a[1] = "pinf" THEN 1 ELSE IF a[1] = "ninf" THEN -1 ELSE Sgn(a[2])

InfOfSign(s) == IF s > 0 THEN PInf ELSE NInf

\* the mantissa brought to four digits, without the range check
RECURSIVE Scale4(_, _)
Scale4(m, e) ==
    IF m = 0 THEN <<0, 0>>
    ELSE IF Abs(m) >= MantLimit THEN Scale4(TruncDiv(m, 10), e + 1)
    ELSE IF Abs(m) * 10 < MantLimit THEN Scale4(m * 10, e - 1)
    ELSE <<m, e>>

\* a finite result m * 10^e as numpy rounds it: overflow to an infinity,
\* underflow to zero
Norm(m, e) ==
    LET \* the largest double is about 1.797e308, the smallest subnormal
        \* about 4.9e-324
        Overflows(s) == s[2] > 305 \/ (s[2] = 305 /\ Abs(s[1]) > 1797)
        Underflows(s) == s[2] < -327
        Ranged(s) ==
            IF s[1] = 0 THEN Zero
            ELSE IF Overflows(s) THEN InfOfSign(s[1])
            ELSE IF Underflows(s) THEN Zero
            ELSE <<"f", s[1], s[2]>>
    IN  Ranged(Scale4(m, e))

\* the float of the integer n
F(n) == Norm(n, 0)

\* the float n / d of a decimal literal
Q(n, d) == Norm(TruncDiv(n * MantLimit, d), -4)

Neg(a) ==
    IF a[1] = "pinf" THEN NInf
    ELSE IF a[1] = "ninf" THEN PInf
    ELSE IF a[1] = "nan" THEN NaN
    ELSE <<"f", -a[2], a[3]>>

\* a + b of two finite values, with four guard digits
AddFin(a, b) ==
    LET \* the mantissa m moved d decimal places down
        Aligned(m, d) ==
            IF d <= 4 THEN m * Pow10(4 - d)
            ELSE IF d <= 8 THEN TruncDiv(m, Pow10(d - 4))
            ELSE 0
        \* hi + lo where hi has the larger exponent
        AddAligned(hi, lo) ==
            Norm(hi[2] * MantLimit + Aligned(lo[2], hi[3] - lo[3]), hi[3] - 4)
    IN  IF a[2] = 0 THEN b
        ELSE IF b[2] = 0 THEN a
        ELSE IF a[3] >= b[3] THEN AddAligned(a, b)
        ELSE AddAligned(b, a)

Add(a, b) ==
    IF IsNaN(a) \/ IsNaN(b) THEN NaN
    ELSE IF IsInf(a) /\ IsInf(b) THEN (IF a = b THEN a ELSE NaN)
    ELSE IF IsInf(a) THEN a
    ELSE IF IsInf(b) THEN b
    ELSE AddFin(a, b)

Sub(a, b) == Add(a, Neg(b))

Mul(a, b) ==
    IF IsNaN(a) \/ IsNaN(b) THEN NaN
    ELSE IF IsInf(a) \/ IsInf(b)
         THEN (IF IsZero(a) \/ IsZero(b) THEN NaN
               ELSE InfOfSign(SignOf(a) * SignOf(b)))
    ELSE Norm(a[2] * b[2], a[3] + b[3])

\* numpy's a / b: a zero divisor gives nan or an infinity (and a warning)
Div(a, b) ==
    IF IsNaN(a) \/ IsNaN(b) THEN NaN
    ELSE IF IsInf(a) THEN (IF IsInf(b) THEN NaN
                           ELSE InfOfSign(SignOf(a) * (IF SignOf(b) < 0 THEN -1 ELSE 1)))
    ELSE IF IsInf(b) THEN Zero
    ELSE IF IsZero(b) THEN (IF IsZero(a) THEN NaN ELSE InfOfSign(SignOf(a)))
    ELSE Norm(Sgn(a[2]) * Sgn(b[2]) * ((Abs(a[2]) * MantLimit) \div Abs(b[2])),
              a[3] - b[3] - 4)

\* a < b, False when either is NaN
Lt(a, b) ==
    IF IsNaN(a) \/ IsNaN(b) THEN FALSE
    ELSE IF a[1] = "pinf" \/ b[1] = "ninf" THEN FALSE
    ELSE IF a[1] = "ninf" \/ b[1] = "pinf" THEN TRUE
    ELSE LET sa == Sgn(a[2])
             sb == Sgn(b[2])
         IN  IF sa # sb THEN sa < sb
             ELSE IF sa = 0 THEN FALSE
             ELSE IF sa > 0 THEN a[3] < b[3] \/ (a[3] = b[3] /\ a[2] < b[2])
             ELSE a[3] > b[3] \/ (a[3] = b[3] /\ a[2] < b[2])

Le(a, b) == ~IsNaN(a) /\ ~IsNaN(b) /\ ~Lt(b, a)


(***************************************************************************)
(* Input texts and the validators (calculators/validators.py)              *)
(***************************************************************************)
\* The texts a caller passes.  Blank is a text of white space only.
Blank == "  "

\* the texts float() converts, with the float each gives
FloatTexts == {"0", "0.2", "0.5", "1", "2", "100", "-60", "-1e9", "1e200", "nan", "inf"}

\* the texts int() converts
IntTexts == {"0", "1", "2", "100", "-60"}

IntOf(txt) ==
    CASE txt = "0" -> 0
      [] txt = "1" -> 1
      [] txt = "2" -> 2
      [] txt = "100" -> 100
      [] txt = "-60" -> -60

FloatOf(txt) ==
    CASE txt = "0.2" -> Q(1, 5)
      [] txt = "0.5" -> Q(1, 2)
      [] txt = "-1e9" -> Norm(-1, 9)
      [] txt = "1e200" -> Norm(1, 200)
      [] txt = "nan" -> NaN
      [] txt = "inf" -> PInf
      [] OTHER -> F(IntOf(txt))

\* Python's None, a value that is not a str
None == "<None>"

\* _strip: "" for a value that is not a str, else the text without
\* surrounding white space
Strip(value) ==
    IF value = None THEN ""
    ELSE IF value = Blank THEN ""
    ELSE IF value = " 2 " THEN "2"
    ELSE value

\* no error: the empty string, modelled as the empty tuple
NoErr == << >>

\* safe_float with an except branch that keeps the default and reports
\* nothing: a validator that lets a text that is not a number through
SafeFloatLenient(value, default) ==
    LET txt == Strip(value)
    IN  IF txt \in FloatTexts THEN <<FloatOf(txt), NoErr>> ELSE <<default, NoErr>>

\* safe_float(value, default) = <<converted value, error message>>
SafeFloat(value, default) ==
    LET txt == Strip(value)
    IN  IF txt = "" THEN <<default, NoErr>>
        ELSE IF txt \in FloatTexts THEN <<FloatOf(txt), NoErr>>
        ELSE <<default, <<"Invalid float: ", value>> >>

\* safe_int with int() replaced by a conversion that truncates what float()
\* converts
SafeIntOfFloat(value, default) ==
    LET txt == Strip(value)
    IN  IF txt = "" THEN <<default, NoErr>>
        ELSE IF txt \in IntTexts THEN <<IntOf(txt), NoErr>>
        ELSE IF txt \in FloatTexts THEN <<0, NoErr>>
        ELSE <<default, <<"Invalid int: ", value>> >>

\* safe_int(value, default) = <<converted value, error message>>
SafeInt(value, default) ==
    LET txt == Strip(value)
    IN  IF txt = "" THEN <<default, NoErr>>
        ELSE IF txt \in IntTexts THEN <<IntOf(txt), NoErr>>
        ELSE <<default, <<"Invalid int: ", value>> >>

(***************************************************************************)
(* The engine's text arguments                                             *)
(***************************************************************************)
\* the fifteen validated text arguments, in the order they are validated
Fields == <<"C0", "Q0", "p", "ACH", "room_volume", "delta_t", "x", "gamma",
            "f_e", "f_i", "omicron", "covid_prevalence", "immune", "N",
            "percentage_masked">>

FieldSet == {Fields[k] : k \in 1..Len(Fields)}

\* the default each text falls back to
DefaultOf(f) ==
    CASE f \in {"C0", "Q0", "p"} -> Q(1, 10)
      [] f \in {"ACH", "f_e", "f_i", "covid_prevalence", "immune"} -> F(1)
      [] f = "room_volume" -> F(1000)
      [] f = "delta_t" -> F(42)
      [] f = "x" -> Q(7, 10)
      [] f = "gamma" -> Q(1, 2)
      [] f = "omicron" -> Q(42, 10)
      [] f = "percentage_masked" -> Zero

DefaultN == 1

\* <<value, error>> of every argument, as lines 481-525 compute them
Converted(a) ==
    [f \in FieldSet |->
        IF f = "N" THEN SafeInt(a[f], DefaultN) ELSE SafeFloat(a[f], DefaultOf(f))]

\* the errors list, and any(errors)
AnyErrors(a) ==
    LET errors == [k \in 1..Len(Fields) |-> Converted(a)[Fields[k]][2]]
    IN  \E k \in 1..Len(Fields) : errors[k] # NoErr

ErrorResult == [error |-> "Invalid input; please enter numeric values."]

(***************************************************************************)
(* More float operations: conversions, square root, exponential            *)
(***************************************************************************)
\* math.floor of a finite value
FloorInt(a) ==
    IF a[3] >= 0 THEN a[2] * Pow10(a[3])
    ELSE IF a[3] < -8 THEN (IF a[2] < 0 THEN -1 ELSE 0)
    ELSE a[2] \div Pow10(-a[3])

\* the integer nearest to a finite value, halves to the even one (round())
RoundHalfEven(a) ==
    LET \* a2 is twice the value, twice its floor, lower the floor of the value
        RoundFrom(a2, twice, lower) ==
            IF twice = 2 * lower + 1 /\ a2 = F(twice)
            THEN (IF lower % 2 = 0 THEN lower ELSE lower + 1)
            ELSE (twice + 1) \div 2
        RoundDoubled(a2) == RoundFrom(a2, FloorInt(a2), FloorInt(a))
    IN  RoundDoubled(Mul(a, F(2)))

RECURSIVE NewtonSqrt(_, _)
NewtonSqrt(n, x) ==
    LET y == (x + n \div x) \div 2
    IN  IF y >= x THEN x ELSE NewtonSqrt(n, y)

\* the integer square root of n >= 0
ISqrt(n) == IF n = 0 THEN 0 ELSE NewtonSqrt(n, 46340)

\* a ** 0.5 of a finite a >= 0
Sqrt(a) ==
    IF IsZero(a) THEN Zero
    ELSE IF a[3] % 2 = 0 THEN Norm(ISqrt(a[2] * MantLimit), (a[3] - 4) \div 2)
    ELSE Norm(ISqrt(a[2] * 10 * MantLimit), (a[3] - 5) \div 2)

Ln2 == Q(6931, 10000)

Ln10 == Q(23026, 10000)

\* the largest argument of math.exp that does not overflow (709.78)
ExpMax == Q(70978, 100)

\* math.exp raises OverflowError on a finite argument above ExpMax
ExpRaises(y) == IsFin(y) /\ Lt(ExpMax, y)

\* math.exp(y): e^y = 10^n * 10^(k/10) * e^r with y*log10(e) = n + k/10 + r/ln(10)
Exp(y) ==
    LET Log10E == Q(4343, 10000)
        \* 10^(k/10) for k = 0..9, to four digits
        TenthDecade == <<1000, 1258, 1584, 1995, 2511, 3162, 3981, 5011, 6309, 7943>>
        \* 10^(q/10) * e^r for the tenth-decade count q and the remainder r
        ExpParts(q, r) ==
            Mul(<<"f", TenthDecade[(q % 10) + 1], (q \div 10) - 3>>,
                Add(Add(F(1), r), Div(Mul(r, r), F(2))))
        ExpTenths(t, q) == ExpParts(q, Mul(Sub(t, Q(q, 10)), Ln10))
        ExpDecades(t) == ExpTenths(t, FloorInt(Mul(t, F(10))))
    IN  IF IsNaN(y) THEN NaN
        ELSE IF y = PInf THEN PInf
        ELSE IF y = NInf \/ Lt(y, F(-750)) THEN Zero
        ELSE IF Lt(ExpMax, y) THEN PInf
        ELSE ExpDecades(Mul(y, Log10E))

\* 1.0 - math.exp(y); for a small |y| the difference is taken from the series
\* of 1 - e^y, as a double resolves it far below four digits
OneMinusExp(y) ==
    IF IsFin(y) /\ Lt(Q(-1, 10), y) /\ Lt(y, Q(1, 10))
    THEN (IF Lt(Norm(-1, -16), y) /\ Lt(y, Norm(1, -16)) THEN Zero
          ELSE Neg(Add(y, Add(Div(Mul(y, y), F(2)), Div(Mul(y, Mul(y, y)), F(6))))))
    ELSE Sub(F(1), Exp(y))

\* Python's a ** 3 raises OverflowError when a finite a has a cube out of range
Cube(a) == Mul(a, Mul(a, a))

CubeRaises(a) == IsFin(a) /\ IsInf(Cube(a))

\* np.clip(a, lo, hi) = minimum(maximum(a, lo), hi); a NaN stays NaN
Clip(a, lo, hi) ==
    IF IsNaN(a) THEN NaN
    ELSE IF Lt(a, lo) THEN lo
    ELSE IF Lt(hi, a) THEN hi
    ELSE a

(***************************************************************************)
(* Module-level data: the particle grid and its bin widths                 *)
(***************************************************************************)
\* Ds = np.logspace(log10(0.1), log10(30), 50), and the values of the
\* emission spectrum and of the deposition fraction at the grid diameters
Ds ==
    <<<<"f", 1000, -4>>, <<"f", 1123, -4>>, <<"f", 1262, -4>>, <<"f", 1417, -4>>, <<"f", 1592, -4>>,
      <<"f", 1789, -4>>, <<"f", 2010, -4>>, <<"f", 2258, -4>>, <<"f", 2537, -4>>, <<"f", 2850, -4>>,
      <<"f", 3202, -4>>, <<"f", 3598, -4>>, <<"f", 4042, -4>>, <<"f", 4541, -4>>, <<"f", 5102, -4>>,
      <<"f", 5731, -4>>, <<"f", 6439, -4>>, <<"f", 7234, -4>>, <<"f", 8127, -4>>, <<"f", 9130, -4>>,
      <<"f", 1025, -3>>, <<"f", 1152, -3>>, <<"f", 1294, -3>>, <<"f", 1454, -3>>, <<"f", 1634, -3>>,
      <<"f", 1835, -3>>, <<"f", 2062, -3>>, <<"f", 2317, -3>>, <<"f", 2603, -3>>, <<"f", 2924, -3>>,
      <<"f", 3285, -3>>, <<"f", 3691, -3>>, <<"f", 4146, -3>>, <<"f", 4658, -3>>, <<"f", 5233, -3>>,
      <<"f", 5879, -3>>, <<"f", 6605, -3>>, <<"f", 7421, -3>>, <<"f", 8337, -3>>, <<"f", 9366, -3>>,
      <<"f", 1052, -2>>, <<"f", 1182, -2>>, <<"f", 1328, -2>>, <<"f", 1492, -2>>, <<"f", 1676, -2>>,
      <<"f", 1883, -2>>, <<"f", 2115, -2>>, <<"f", 2376, -2>>, <<"f", 2670, -2>>, <<"f", 3000, -2>>>>

\* the term of each mode of the BLO spectrum (B bronchiolar, L laryngeal,
\* O oral) at the grid diameters, before its amplification factor:
\* cn / (sqrt(2 pi) sigma) / D * exp(-(ln D - mu)^2 / (2 sigma^2)) * Vp * 1e-6
ModeTerms ==
    [B |->
        <<<<"f", 3084, -47>>, <<"f", 9232, -45>>, <<"f", 2269, -42>>, <<"f", 4583, -40>>, <<"f", 7601, -38>>,
          <<"f", 1035, -35>>, <<"f", 1158, -33>>, <<"f", 1064, -31>>, <<"f", 8030, -30>>, <<"f", 4977, -28>>,
          <<"f", 2533, -26>>, <<"f", 1059, -24>>, <<"f", 3637, -23>>, <<"f", 1025, -21>>, <<"f", 2376, -20>>,
          <<"f", 4520, -19>>, <<"f", 7063, -18>>, <<"f", 9064, -17>>, <<"f", 9554, -16>>, <<"f", 8270, -15>>,
          <<"f", 5880, -14>>, <<"f", 3433, -13>>, <<"f", 1646, -12>>, <<"f", 6487, -12>>, <<"f", 2098, -11>>,
          <<"f", 5577, -11>>, <<"f", 1217, -10>>, <<"f", 2181, -10>>, <<"f", 3211, -10>>, <<"f", 3883, -10>>,
          <<"f", 3856, -10>>, <<"f", 3145, -10>>, <<"f", 2107, -10>>, <<"f", 1159, -10>>, <<"f", 5238, -11>>,
          <<"f", 1944, -11>>, <<"f", 5926, -12>>, <<"f", 1483, -12>>, <<"f", 3050, -13>>, <<"f", 5152, -14>>,
          <<"f", 7146, -15>>, <<"f", 8141, -16>>, <<"f", 7617, -17>>, <<"f", 5853, -18>>, <<"f", 3694, -19>>,
          <<"f", 1915, -20>>, <<"f", 8153, -22>>, <<"f", 2851, -23>>, <<"f", 8188, -25>>, <<"f", 1931, -26>>>>,
     L |->
        <<<<"f", 2584, -24>>, <<"f", 1690, -23>>, <<"f", 1049, -22>>, <<"f", 6174, -22>>, <<"f", 3447, -21>>,
          <<"f", 1826, -20>>, <<"f", 9176, -20>>, <<"f", 4374, -19>>, <<"f", 1977, -18>>, <<"f", 8483, -18>>,
          <<"f", 3451, -17>>, <<"f", 1332, -16>>, <<"f", 4878, -16>>, <<"f", 1694, -15>>, <<"f", 5582, -15>>,
          <<"f", 1744, -14>>, <<"f", 5173, -14>>, <<"f", 1455, -13>>, <<"f", 3882, -13>>, <<"f", 9826, -13>>,
          <<"f", 2359, -12>>, <<"f", 5373, -12>>, <<"f", 1160, -11>>, <<"f", 2379, -11>>, <<"f", 4625, -11>>,
          <<"f", 8531, -11>>, <<"f", 1492, -10>>, <<"f", 2477, -10>>, <<"f", 3900, -10>>, <<"f", 5824, -10>>,
          <<"f", 8252, -10>>, <<"f", 1109, -9>>, <<"f", 1413, -9>>, <<"f", 1709, -9>>, <<"f", 1961, -9>>,
          <<"f", 2134, -9>>, <<"f", 2203, -9>>, <<"f", 2158, -9>>, <<"f", 2005, -9>>, <<"f", 1766, -9>>,
          <<"f", 1477, -9>>, <<"f", 1171, -9>>, <<"f", 8811, -10>>, <<"f", 6288, -10>>, <<"f", 4256, -10>>,
          <<"f", 2733, -10>>, <<"f", 1665, -10>>, <<"f", 9622, -11>>, <<"f", 5274, -11>>, <<"f", 2742, -11>>>>,
     O |->
        <<<<"f", 8544, -49>>, <<"f", 1257, -47>>, <<"f", 1778, -46>>, <<"f", 2418, -45>>, <<"f", 3159, -44>>,
          <<"f", 3968, -43>>, <<"f", 4791, -42>>, <<"f", 5560, -41>>, <<"f", 6202, -40>>, <<"f", 6649, -39>>,
          <<"f", 6851, -38>>, <<"f", 6786, -37>>, <<"f", 6461, -36>>, <<"f", 5912, -35>>, <<"f", 5200, -34>>,
          <<"f", 4396, -33>>, <<"f", 3572, -32>>, <<"f", 2790, -31>>, <<"f", 2094, -30>>, <<"f", 1511, -29>>,
          <<"f", 1048, -28>>, <<"f", 6988, -28>>, <<"f", 4477, -27>>, <<"f", 2757, -26>>, <<"f", 1632, -25>>,
          <<"f", 9289, -25>>, <<"f", 5080, -24>>, <<"f", 2670, -23>>, <<"f", 1349, -22>>, <<"f", 6554, -22>>,
          <<"f", 3059, -21>>, <<"f", 1372, -20>>, <<"f", 5920, -20>>, <<"f", 2454, -19>>, <<"f", 9778, -19>>,
          <<"f", 3744, -18>>, <<"f", 1378, -17>>, <<"f", 4877, -17>>, <<"f", 1658, -16>>, <<"f", 5421, -16>>,
          <<"f", 1703, -15>>, <<"f", 5144, -15>>, <<"f", 1493, -14>>, <<"f", 4166, -14>>, <<"f", 1117, -13>>,
          <<"f", 2879, -13>>, <<"f", 7135, -13>>, <<"f", 1699, -12>>, <<"f", 3889, -12>>, <<"f", 8556, -12>>>>]

DepositionTable ==
    <<<<"f", 6122, -4>>, <<"f", 5741, -4>>, <<"f", 5351, -4>>, <<"f", 4958, -4>>, <<"f", 4568, -4>>,
      <<"f", 4186, -4>>, <<"f", 3819, -4>>, <<"f", 3470, -4>>, <<"f", 3143, -4>>, <<"f", 2840, -4>>,
      <<"f", 2564, -4>>, <<"f", 2316, -4>>, <<"f", 2095, -4>>, <<"f", 1901, -4>>, <<"f", 1734, -4>>,
      <<"f", 1592, -4>>, <<"f", 1476, -4>>, <<"f", 1386, -4>>, <<"f", 1321, -4>>, <<"f", 1283, -4>>,
      <<"f", 1274, -4>>, <<"f", 1298, -4>>, <<"f", 1361, -4>>, <<"f", 1467, -4>>, <<"f", 1627, -4>>,
      <<"f", 1848, -4>>, <<"f", 2141, -4>>, <<"f", 2514, -4>>, <<"f", 2971, -4>>, <<"f", 3511, -4>>,
      <<"f", 4124, -4>>, <<"f", 4790, -4>>, <<"f", 5484, -4>>, <<"f", 6172, -4>>, <<"f", 6825, -4>>,
      <<"f", 7418, -4>>, <<"f", 7935, -4>>, <<"f", 8369, -4>>, <<"f", 8720, -4>>, <<"f", 8995, -4>>,
      <<"f", 9200, -4>>, <<"f", 9345, -4>>, <<"f", 9435, -4>>, <<"f", 9475, -4>>, <<"f", 9467, -4>>,
      <<"f", 9411, -4>>, <<"f", 9305, -4>>, <<"f", 9145, -4>>, <<"f", 8928, -4>>, <<"f", 8655, -4>>>>

GridLen == Len(Ds)

\* dDs: central differences inside, one-sided differences at the two ends
dDs ==
    [k \in 1..GridLen |->
        IF k = 1 THEN Sub(Ds[2], Ds[1])
        ELSE IF k = GridLen THEN Sub(Ds[GridLen], Ds[GridLen - 1])
        ELSE Div(Sub(Ds[k + 1], Ds[k - 1]), F(2))]

Dmax_SR == F(100)

Dmax_LR == F(20)

D_mouth == Q(2, 100)

beta_r_j == Q(18, 100)

beta_r_p == Q(20, 100)

beta_x_j == Q(24, 10)

Pi == Q(31415, 10000)

oneoverln2 == Div(F(1), Ln2)

(***************************************************************************)
(* Physics helpers (exposure_calculator.py, lines 36-368)                  *)
(***************************************************************************)
\* get_henriques_breathing_rate: Table 1 rates [m3/h], standing by default
get_henriques_breathing_rate(physical_activity) ==
    CASE physical_activity \in {"sitting", "seated"} -> Q(51, 100)
      [] physical_activity = "standing" -> Q(57, 100)
      [] physical_activity \in {"light", "light_exercise"} -> Q(124, 100)
      [] physical_activity \in {"moderate", "moderate_exercise"} -> Q(177, 100)
      [] physical_activity \in {"heavy", "high_intensity"} -> Q(328, 100)
      [] OTHER -> Q(57, 100)

\* sigma of ln(breathing rate) by physical activity (lines 633-642, 706-715)
BreathingSigma(physical_activity) ==
    CASE physical_activity \in {"sitting", "seated", "standing"} -> Q(53, 1000)
      [] physical_activity \in {"light", "light_exercise"} -> Q(12, 100)
      [] physical_activity \in {"moderate", "moderate_exercise"} -> Q(34, 100)
      [] OTHER -> Q(72, 100)

\* a mapping of the vocal activity that falls back to breathing
vocalization_default_breathing(vocal_activity) ==
    CASE vocal_activity \in {"breathing", "just_breathing"} -> "1"
      [] vocal_activity = "speaking" -> "2"
      [] vocal_activity \in {"loudly_speaking", "loud_speaking", "shouting"} -> "5"
      [] OTHER -> "1"

\* get_henriques_vocalization_activity: speaking by default
get_henriques_vocalization_activity(vocal_activity) ==
    CASE vocal_activity \in {"breathing", "just_breathing"} -> "1"
      [] vocal_activity = "speaking" -> "2"
      [] vocal_activity \in {"loudly_speaking", "loud_speaking", "shouting"} -> "5"
      [] OTHER -> "2"

\* emission_spectrum_henriques at the grid diameter Ds[idx]: the modes with
\* a positive amplification factor famp, added in the order B, L, O
emission_spectrum_henriques(idx, activity_choice) ==
    LET famp ==
            IF activity_choice = "1" THEN [B |-> F(1), L |-> Zero, O |-> Zero]
            ELSE IF activity_choice \in {"2", "3"} THEN [B |-> F(1), L |-> F(1), O |-> F(1)]
            ELSE [B |-> F(1), L |-> F(5), O |-> F(5)]
        Plus(result, w, term) == IF Lt(Zero, w) THEN Add(result, Mul(w, term)) ELSE result
        Spectrum(w) ==
            Plus(Plus(Plus(Zero, w.B, ModeTerms.B[idx]), w.L, ModeTerms.L[idx]),
                 w.O, ModeTerms.O[idx])
    IN  Spectrum(famp)

\* emission_spectrum_IRP_henriques: Ec * viral_load * f_inf
emission_spectrum_IRP_henriques(idx, vocal_activity, viral_load, f_inf) ==
    Mul(Mul(emission_spectrum_henriques(
                idx, get_henriques_vocalization_activity(vocal_activity)),
            viral_load), f_inf)

\* the deposition in percent instead of as a fraction
deposition_percent(idx) == Mul(DepositionTable[idx], F(100))

\* deposition_fraction at the grid diameter Ds[idx], evaporation factor 0.3
deposition_fraction(idx) == DepositionTable[idx]

\* sedimentation_rate(D) = 1.88e-4 * ((D * 0.3) / 2.5) ** 2 * 3600 / 1.5
sedimentation_rate(D) ==
    LET SettlingRate(r) ==
            Div(Mul(Mul(Norm(188, -6), Mul(r, r)), F(3600)), Q(15, 10))
    IN  SettlingRate(Div(Mul(D, Q(3, 10)), Q(25, 10)))

\* viral_inactivation_rate_long(D, T, RH); the diameter D is not used
viral_inactivation_rate_long(T, RH) ==
    LET \* the half-life [h] from the normalised temperature and humidity
        HalfLife(t_norm, h_norm) ==
            Div(Ln2,
                Sub(Sub(Add(Add(Q(1603, 10000), Mul(Q(4018, 100000), t_norm)),
                            Mul(Q(2176, 100000), h_norm)),
                        Q(14369, 100000)),
                    Mul(Q(2636, 100000), t_norm)))
        \* the half-life capped at 6.43 h (a non-positive one is the cap), as a rate
        InactivationRate(hl0) ==
            IF Le(hl0, Zero) THEN Div(Ln2, Q(643, 100))
            ELSE IF IsNaN(hl0) THEN NaN
            ELSE IF Lt(hl0, Q(643, 100)) THEN Div(Ln2, hl0)
            ELSE Div(Ln2, Q(643, 100))
    IN  InactivationRate(HalfLife(
            Div(Sub(Sub(T, Q(27315, 100)), Q(20615, 1000)), Q(10585, 1000)),
            Div(Sub(Mul(RH, F(100)), Q(45235, 1000)), Q(28665, 1000))))

\* the linear decay applied whatever the relative humidity
short_range_decay_always(x, u0, RH) ==
    LET NonNegative(lambda_SR) == IF Lt(Zero, lambda_SR) THEN lambda_SR ELSE Zero
    IN  NonNegative(Sub(F(1), Mul(Q(16, 1000), Div(x, u0))))

\* the linear decay applied strictly below the threshold only
short_range_decay_below(x, u0, RH) ==
    LET NonNegative(lambda_SR) == IF Lt(Zero, lambda_SR) THEN lambda_SR ELSE Zero
    IN  IF Lt(RH, Q(40, 100))
        THEN NonNegative(Sub(F(1), Mul(Q(16, 1000), Div(x, u0))))
        ELSE F(1)

\* short_range_viability_decay(x, u0, RH); x / u0 is a Python division
short_range_viability_decay(x, u0, RH) ==
    LET \* max(0.0, lambda_SR): the first argument unless the second is greater
        NonNegative(lambda_SR) == IF Lt(Zero, lambda_SR) THEN lambda_SR ELSE Zero
    IN  IF Le(RH, Q(40, 100))
        THEN NonNegative(Sub(F(1), Mul(Q(16, 1000), Div(x, u0))))
        ELSE F(1)

\* calculate_henriques_jet_parameters(BR), equations S.3-S.8
\* the constants of the breathing cycle and of the mouth opening
T_cycle == F(4)

t_star == Div(T_cycle, F(2))

x0_j == Div(D_mouth, Mul(F(2), beta_r_j))

Squared(a) == Mul(a, a)

\* calculate_henriques_jet_parameters(BR), equations S.3-S.8
calculate_henriques_jet_parameters(BR) ==
    LET phi_j == F(2)
        beta_x_p == Q(22, 10)
        A_mouth == Mul(Pi, Mul(Div(D_mouth, F(2)), Div(D_mouth, F(2))))
        \* t0_j, the virtual origin of the jet-like stage (equation S.3)
        JetOrigin(Q_exh) ==
            Div(Mul(Sqrt(Pi), Mul(D_mouth, Mul(D_mouth, D_mouth))),
                Mul(Mul(Mul(F(8), Squared(beta_r_j)), Squared(beta_x_j)), Q_exh))
        \* t0_p, the virtual origin of the puff-like stage (equation S.5)
        PuffOrigin(Q_exh, V_p, tsum) ==
            Sub(Mul(Mul(Div(Mul(Squared(Squared(beta_r_j)), Squared(Squared(beta_x_j))),
                            Mul(Squared(Squared(beta_r_p)), Squared(Squared(beta_x_p)))),
                        Div(Q_exh, V_p)),
                    Squared(tsum)),
                t_star)
        \* x_transition (equation S.7): the powers 0.25 and 0.5 as square roots
        TransitionDistance(Q_exh, u0, tsum) ==
            Sub(Mul(Mul(beta_x_j, Sqrt(Sqrt(Mul(Q_exh, u0)))), Sqrt(tsum)), x0_j)
        \* x0_p (equation S.8)
        PuffDistance(x_transition) ==
            Sub(Mul(Div(beta_r_j, beta_r_p), Add(x_transition, x0_j)), x_transition)
        JetRecord(Q_exh, u0, t0_j, t0_p, x_transition) ==
            [x_transition |-> x_transition, x0_j |-> x0_j,
             x0_p |-> PuffDistance(x_transition),
             t_star |-> t_star, Q_exh |-> Q_exh, u0 |-> u0, t0_j |-> t0_j,
             t0_p |-> t0_p]
        JetTimes(Q_exh, V_p, u0, t0_j, tsum) ==
            JetRecord(Q_exh, u0, t0_j, PuffOrigin(Q_exh, V_p, tsum),
                      TransitionDistance(Q_exh, u0, tsum))
        JetVelocity(Q_exh, V_p, t0_j) ==
            JetTimes(Q_exh, V_p, Div(Q_exh, A_mouth), t0_j, Add(t_star, t0_j))
        JetFlow(Q_exh, V_p) == JetVelocity(Q_exh, V_p, JetOrigin(Q_exh))
        BreathPerSecond(BR_s) == JetFlow(Mul(phi_j, BR_s), Mul(T_cycle, BR_s))
    IN  BreathPerSecond(Div(BR, F(3600)))

\* get_immune_emission_multiplier
get_immune_emission_multiplier(immunocompromised_status) ==
    CASE immunocompromised_status = "normal" -> F(1)
      [] immunocompromised_status = "moderate" -> F(8)
      [] immunocompromised_status = "severe" -> F(20)
      [] OTHER -> F(1)

(***************************************************************************)
(* Array statistics (numpy) and the risk-distribution summariser           *)
(* (calculators/risk_distribution.py)                                      *)
(***************************************************************************)
RECURSIVE InsertSorted(_, _)
InsertSorted(s, v) ==
    IF s = << >> THEN <<v>>
    ELSE IF Lt(v, Head(s)) THEN <<v>> \o s
    ELSE <<Head(s)>> \o InsertSorted(Tail(s), v)

RECURSIVE SortedArray(_)
SortedArray(arr) ==
    IF arr = << >> THEN << >>
    ELSE InsertSorted(SortedArray(SubSeq(arr, 1, Len(arr) - 1)), arr[Len(arr)])

RECURSIVE SumSeq(_)
SumSeq(arr) ==
    IF arr = << >> THEN Zero
    ELSE Add(SumSeq(SubSeq(arr, 1, Len(arr) - 1)), arr[Len(arr)])

\* arr.mean() of a non-empty array
Mean(arr) == Div(SumSeq(arr), F(Len(arr)))

\* np.percentile(arr, qn/qd) of a non-empty array, linear interpolation
\* between the two nearest order statistics; NaN when the array holds a NaN
Percentile(arr, qn, qd) ==
    LET \* numpy's _lerp between the order statistics a and b
        Lerp(a, b, t) ==
            IF Lt(t, Q(1, 2)) THEN Add(a, Mul(Sub(b, a), t))
            ELSE Sub(b, Mul(Sub(b, a), Sub(F(1), t)))
        \* the interpolation at the position num / den of the sorted array s
        LerpAt(s, lo, num, den) ==
            Lerp(s[lo + 1], s[IF lo + 2 < Len(s) THEN lo + 2 ELSE Len(s)],
                 Q(num % den, den))
        PercentileAt(s, num, den) == LerpAt(s, num \div den, num, den)
        HasNaN(s) == \E k \in 1..Len(s) : IsNaN(s[k])
    IN  IF HasNaN(arr) THEN NaN
        ELSE PercentileAt(SortedArray(arr), qn * (Len(arr) - 1), 100 * qd)

\* calculate_optimal_axes = <<x_min, x_max, tick_interval>>
calculate_optimal_axes(risk_array) ==
    LET \* the tick interval for the upper axis limit (lines 30-37)
        TickInterval(x_max) ==
            IF Lt(x_max, Q(1, 100)) THEN Q(1, 1000)
            ELSE IF Lt(x_max, Q(1, 10)) THEN Q(1, 100)
            ELSE Q(5, 100)
        \* max(0, low)
        AxisMin(low) == IF Lt(Zero, low) THEN low ELSE Zero
        AxesOf(low, x_max) == <<AxisMin(low), x_max, TickInterval(x_max)>>
    IN  AxesOf(Mul(Percentile(risk_array, 5, 1), Q(8, 10)),
               Mul(Percentile(risk_array, 95, 1), Q(12, 10)))

\* the bin width before rounding, and the scale it is rounded at
RawBinWidth(x_min, x_max) == Div(Sub(x_max, x_min), F(20))

\* round() raises ValueError on a NaN and OverflowError on an infinity
RoundRaises(x_min, x_max) == ~IsFin(RawBinWidth(x_min, x_max))

\* the bin width rounded to a "nice" number (create_smart_bins, lines 56-64)
NiceBinWidth(x_min, x_max) ==
    LET RoundTo(bin_width, sc) ==
            Div(F(RoundHalfEven(Mul(bin_width, F(sc)))), F(sc))
        RoundingScale(bin_width) ==
            IF Lt(bin_width, Q(1, 1000)) THEN 10000
            ELSE IF Lt(bin_width, Q(1, 100)) THEN 1000
            ELSE 100
        RoundNicely(bin_width) == RoundTo(bin_width, RoundingScale(bin_width))
    IN  RoundNicely(RawBinWidth(x_min, x_max))

\* np.arange(start, stop, step) with step > 0
Arange(start, stop, step) ==
    LET CeilInt(a) == -FloorInt(Neg(a))
        ArangeOf(n) ==
            [k \in 1..(IF n > 0 THEN n ELSE 0) |-> Add(start, Mul(F(k - 1), step))]
    IN  ArangeOf(CeilInt(Div(Sub(stop, start), step)))

\* np.arange raises on a zero step: ZeroDivisionError or ValueError by the
\* argument types, both caught as Exception; the model names the first
ArangeRaises(step) == IsZero(step)

\* create_smart_bins, when it does not raise
create_smart_bins(x_min, x_max) ==
    LET BinsOfWidth(bin_width) == Arange(x_min, Add(x_max, bin_width), bin_width)
    IN  BinsOfWidth(NiceBinWidth(x_min, x_max))

\* a histogram whose bins are open on the left, (bins[k], bins[k+1]]: a
\* value on the first edge is not counted
BinCountLeftOpen(arr, bins, k) ==
    Cardinality({j \in 1..Len(arr) :
        Lt(bins[k], arr[j]) /\ Le(arr[j], bins[k + 1])})

\* the count of bin k of np.histogram(arr, bins): [bins[k], bins[k+1]), the
\* last bin closed on the right; values outside the edges are not counted
BinCount(arr, bins, k) ==
    Cardinality({j \in 1..Len(arr) :
        /\ Le(bins[k], arr[j])
        /\ IF k = Len(bins) - 1 THEN Le(arr[j], bins[k + 1])
           ELSE Lt(arr[j], bins[k + 1])})

\* a histogram with one count per edge instead of one per bin
HistogramCountsPerEdge(arr, bins) ==
    [k \in 1..Len(bins) |-> Cardinality({j \in 1..Len(arr) : Le(bins[k], arr[j])})]

\* counts of np.histogram(arr, bins): one count per bin
HistogramCounts(arr, bins) == [k \in 1..(Len(bins) - 1) |-> BinCount(arr, bins, k)]

\* np.max of a non-empty list of counts
RECURSIVE MaxOf(_)
MaxOf(seq) ==
    LET Larger(m, n) == IF m > n THEN m ELSE n
    IN  IF Len(seq) = 1 THEN seq[1] ELSE Larger(seq[1], MaxOf(Tail(seq)))

\* calculate_risk_statistics: the mean, the median and the percentiles it reports
calculate_risk_statistics(risk_array) ==
    [mean   |-> Mean(risk_array),
     median |-> Percentile(risk_array, 50, 1),
     p5     |-> Percentile(risk_array, 5, 1),
     p25    |-> Percentile(risk_array, 25, 1),
     p75    |-> Percentile(risk_array, 75, 1),
     p95    |-> Percentile(risk_array, 95, 1)]

\* the exception generate_risk_distribution_data raises on this array, or ""
DistributionRaises(all_risks_array) ==
    LET AxesRaise(axes) ==
            IF RoundRaises(axes[1], axes[2]) THEN "ValueError"
            ELSE IF ArangeRaises(NiceBinWidth(axes[1], axes[2]))
                 THEN "ZeroDivisionError"
            ELSE ""
    IN  IF Len(all_risks_array) = 0 THEN "ValueError"
        ELSE IF \E k \in 1..Len(all_risks_array) :
                    Lt(all_risks_array[k], Zero) \/ Lt(F(1), all_risks_array[k])
             THEN "ValueError"
        ELSE AxesRaise(calculate_optimal_axes(all_risks_array))

\* the object generate_risk_distribution_data returns when it does not raise
\* a fraction as the percentage an f"{...:.1f}" prints, in tenths of a percent
PercentTenths(fraction) == RoundHalfEven(Mul(Mul(fraction, F(100)), F(10)))

\* generate_interpretation_text: the numbers its strings print
generate_interpretation_text(statistics) ==
    [typical_range |-> <<PercentTenths(statistics.p25), PercentTenths(statistics.p75)>>,
     summary |-> <<PercentTenths(statistics.mean), PercentTenths(statistics.p25),
                   PercentTenths(statistics.p75)>>]

\* the object generate_risk_distribution_data returns when it does not raise
generate_risk_distribution_data(all_risks_array) ==
    LET DistributionObject(axes, bins, counts, statistics) ==
            [histogram |->
                [counts |-> counts,
                 edges |-> bins,
                 total_simulations |-> Len(all_risks_array),
                 max_count |-> IF Len(counts) > 0 THEN MaxOf(counts) ELSE 0],
             statistics |-> statistics,
             interpretation |-> generate_interpretation_text(statistics),
             axis_config |->
                [x_min |-> axes[1], x_max |-> axes[2], tick_interval |-> axes[3]]]
        DistributionOfBins(axes, bins) ==
            DistributionObject(axes, bins, HistogramCounts(all_risks_array, bins),
                               calculate_risk_statistics(all_risks_array))
        DistributionOfAxes(axes) ==
            DistributionOfBins(axes, create_smart_bins(axes[1], axes[2]))
    IN  DistributionOfAxes(calculate_optimal_axes(all_risks_array))

\* validate_risk_distribution_data: the histogram and the mean checks pass
validate_risk_distribution_data(distribution_data) ==
    /\ {"histogram", "statistics", "axis_config", "interpretation"}
         \subseteq DOMAIN distribution_data
    /\ Len(distribution_data.histogram.counts)
         = Len(distribution_data.histogram.edges) - 1
    /\ Le(Zero, distribution_data.statistics.mean)
    /\ Le(distribution_data.statistics.mean, F(1))

(***************************************************************************)
(* Random draws.  Every draw is modelled by the standard variate the       *)
(* generator produces (a uniform u in [0, 1), a standard normal z, a       *)
(* standard Weibull w) and the transformation numpy applies to it.         *)
(***************************************************************************)
\* the standard variates the model lets the generator produce
OmicronZ == {F(-4), F(4)}
ID50U == {Zero, Q(1, 2)}
BreathingZ == {Zero}
InfectiousU == {Zero, Q(1, 2)}
WeibullW == {Q(1, 10), F(2)}
FInfU == {Q(1, 2)}
MaskU == {Zero, Q(1, 2)}
ProtectionZ == {Zero}

\* np.random.uniform(lo, hi) for the uniform variate u
Uniform(lo, hi, u) == Add(lo, Mul(Sub(hi, lo), u))

\* np.random.lognormal(log(median), sigma) for the normal variate z
LogNormal(median, sigma, z) == Mul(median, Exp(Mul(sigma, z)))

\* 10 ** v for a float v
TenToThe(v) == Exp(Mul(v, Ln10))

\* the transmissibility factor without the bounds of line 403
sample_omicron_unbounded(z) == LogNormal(Q(42, 10), Q(2884, 10000), z)

\* sample_omicron_transmissibility_bayesian for the normal variate z:
\* exp(normal(log 4.20, log(6.35 / 2.05) / 3.92)) clipped to [1.5, 8.0]
sample_omicron_transmissibility_bayesian(z) ==
    Clip(LogNormal(Q(42, 10), Q(2884, 10000), z), Q(15, 10), F(8))

\* the log10 viral load for the Weibull variate w: clip(w * 6.850, 2, 10)
vlin_log10(w) == Clip(Mul(w, Q(685, 100)), F(2), F(10))

\* the viral load for the Weibull variate w: 10 ** vlin_log10
SampleViralLoad(w) == TenToThe(vlin_log10(w))

(***************************************************************************)
(* One infectious person's dose (exposure_calculator.py, lines 686-770)    *)
(***************************************************************************)
\* the number of grid diameters the dose integral is evaluated at
GridPoints == 4

\* the grid indices used: evenly spread, both ends of the grid included
GridIndex(k) == 1 + ((k - 1) * (GridLen - 1)) \div (GridPoints - 1)

\* the keyword arguments of the engine, at their defaults
DefaultKw ==
    [activity_choice |-> "2",
     user_physical_activity |-> "standing",
     others_physical_activity |-> "standing",
     others_vocal_activity |-> "speaking",
     RH |-> Q(40, 100),
     CO2 |-> F(800),
     inside_temp |-> Q(29315, 100),
     immunocompromised_status |-> "normal"]

\* the base of the cube in the puff-like dilution factor
PuffBase(x_eff, x_transition) ==
    Add(F(1), Div(Mul(beta_r_p, Sub(x_eff, x_transition)),
                  Mul(beta_r_j, Add(x_transition, x0_j))))

\* the jet-like stage (line 732): S(x) = 2 * beta_r_j * (x + x0_j) / D_mouth
JetDilution(x_eff) == Div(Mul(Mul(F(2), beta_r_j), Add(x_eff, x0_j)), D_mouth)

\* a puff-like stage that measures the distance from the mouth instead of
\* from the transition
PuffDilutionFromMouth(x_eff, x_transition) ==
    Mul(JetDilution(x_transition),
        Cube(Add(F(1), Div(Mul(beta_r_p, x_eff),
                           Mul(beta_r_j, Add(x_transition, x0_j))))))

\* the puff-like stage (lines 735-738): S(x*) times the cube of PuffBase
PuffDilution(x_eff, x_transition) ==
    Mul(JetDilution(x_transition), Cube(PuffBase(x_eff, x_transition)))

\* the dilution factor Sx_sim, jet-like below the transition distance
DilutionFactor(x_eff, x_transition) ==
    IF Lt(x_eff, x_transition) THEN JetDilution(x_eff)
    ELSE PuffDilution(x_eff, x_transition)

\* the exception computing the dilution of one person raises, or "":
\* the cube is a Python power, 1 / Sx_sim a Python division
DilutionRaises(x_eff, x_transition) ==
    IF ~Lt(x_eff, x_transition) /\ CubeRaises(PuffBase(x_eff, x_transition))
    THEN "OverflowError"
    ELSE IF IsZero(DilutionFactor(x_eff, x_transition)) THEN "ZeroDivisionError"
    ELSE ""

\* the background concentration CLR at grid index idx (a numpy division)
\* the background with the legacy source strength C0 added to the emission
BackgroundWithLegacySource(v, kw, idx, C0_SR_filtered, others_BR) ==
    IF Le(Ds[idx], Dmax_LR)
    THEN Div(Mul(Add(C0_SR_filtered, v.C0), others_BR),
             Mul(Add(Add(v.ACH, sedimentation_rate(Ds[idx])),
                     viral_inactivation_rate_long(kw.inside_temp, kw.RH)),
                 v.room_volume))
    ELSE Zero

BackgroundConcentration(v, kw, idx, C0_SR_filtered, others_BR) ==
    IF Le(Ds[idx], Dmax_LR)
    THEN Div(Mul(C0_SR_filtered, others_BR),
             Mul(Add(Add(v.ACH, sedimentation_rate(Ds[idx])),
                     viral_inactivation_rate_long(kw.inside_temp, kw.RH)),
                 v.room_volume))
    ELSE Zero

\* dose_increment * width at grid index idx
DoseIncrement(v, kw, idx, om, BR, vlin, f_inf, others_BR, exhalation_filter, Sx_sim, lambda_SR) ==
    LET \* CSR: the background plus the diluted short-range excess
        ShortRangeConcentration(CLR, C0_SR_filtered) ==
            IF Le(Ds[idx], Dmax_SR)
            THEN Add(CLR, Mul(Mul(Div(F(1), Sx_sim), lambda_SR),
                              Sub(C0_SR_filtered, CLR)))
            ELSE CLR
        ConcentrationAt(C0_SR_filtered) ==
            ShortRangeConcentration(
                BackgroundConcentration(v, kw, idx, C0_SR_filtered, others_BR),
                C0_SR_filtered)
        \* dose_increment * width for the concentration CSR; eta_in = 1.0 - f_i_val
        DoseOf(CSR) ==
            Mul(Mul(Mul(Mul(Mul(CSR, BR), Div(v.delta_t, F(3600))),
                        deposition_fraction(idx)),
                    Sub(F(1), Sub(F(1), v.f_i))),
                dDs[idx])
    IN  \* C0_SR_filtered: emission scaled by the variant, the immune status, the mask
        DoseOf(ConcentrationAt(
            Mul(Mul(Mul(emission_spectrum_IRP_henriques(
                            idx, kw.others_vocal_activity, vlin, f_inf),
                        om),
                    get_immune_emission_multiplier(kw.immunocompromised_status)),
                exhalation_filter)))

RECURSIVE SumIncrements(_, _, _, _, _, _, _, _, _, _, _)
SumIncrements(k, v, kw, om, BR, vlin, f_inf, others_BR, exhalation_filter, Sx_sim, lambda_SR) ==
    IF k = 0 THEN Zero
    ELSE Add(SumIncrements(k - 1, v, kw, om, BR, vlin, f_inf, others_BR,
                           exhalation_filter, Sx_sim, lambda_SR),
             DoseIncrement(v, kw, GridIndex(k), om, BR, vlin, f_inf, others_BR,
                           exhalation_filter, Sx_sim, lambda_SR))

\* person_dose of one infectious person, when the dilution does not raise
PersonDose(v, kw, om, BR, vlin, f_inf, others_BR, exhalation_filter, jet) ==
    SumIncrements(GridPoints, v, kw, om, BR, vlin, f_inf, others_BR,
                  exhalation_filter, DilutionFactor(v.x, jet.x_transition),
                  short_range_viability_decay(v.x, jet.u0, kw.RH))

(***************************************************************************)
(* Dose-response with the protection factor (lines 786-811)                *)
(***************************************************************************)
PF_MAX == F(50)

\* True when the protection factor is sampled (immune_val <= 0 is False)
SamplesPF(immune_val) == ~Le(immune_val, Zero)

\* math.log(1.0 / immune_val) raises ValueError when the quotient is zero
LogRaises(immune_val) == SamplesPF(immune_val) /\ IsZero(Div(F(1), immune_val))

\* the protection factor without the cap of line 807
ProtectionFactorUncapped(immune_val, z) ==
    IF ~SamplesPF(immune_val) THEN PF_MAX
    ELSE LogNormal(Div(F(1), immune_val), Q(2, 10), z)

\* the protection factor PF for the normal variate z
ProtectionFactor(immune_val, z) ==
    LET \* if PF > PF_MAX: PF = PF_MAX
        Capped(PF) == IF Lt(PF_MAX, PF) THEN PF_MAX ELSE PF
    IN  IF ~SamplesPF(immune_val) THEN PF_MAX
        ELSE Capped(LogNormal(Div(F(1), immune_val), Q(2, 10), z))

\* the argument of math.exp: -total_dose / (oneoverln2 * ID50 * PF)
DoseExponent(total_dose, ID50, PF) ==
    Div(Neg(total_dose), Mul(Mul(oneoverln2, ID50), PF))

\* the exception the dose-response raises, or "": total_dose is a Python
\* float while no person was infectious, so a zero threshold then raises
DoseResponseRaises(total_dose, infectious_count, ID50, PF) ==
    IF infectious_count = 0 /\ IsZero(Mul(Mul(oneoverln2, ID50), PF))
    THEN "ZeroDivisionError"
    ELSE IF ExpRaises(DoseExponent(total_dose, ID50, PF)) THEN "OverflowError"
    ELSE ""

\* risk_pf = 1.0 - math.exp(-total_dose / ID63_pf)
RiskPF(total_dose, ID50, PF) == OneMinusExp(DoseExponent(total_dose, ID50, PF))

(***************************************************************************)
(* The adaptive trial count (lines 599-610)                                *)
(***************************************************************************)
\* the trial count with every band limit taken into the lower band
ChooseTrialCountInclusive(N_val, covid_prevalence_val) ==
    LET TrialCountFor(expected_infectious) ==
            IF Le(expected_infectious, Q(1, 2)) THEN 25000
            ELSE IF Le(expected_infectious, F(2)) THEN 8000
            ELSE IF Le(expected_infectious, F(5)) THEN 2000
            ELSE IF Le(expected_infectious, F(10)) THEN 1000
            ELSE 300
    IN  TrialCountFor(Mul(F(N_val), covid_prevalence_val))

\* n_sims for the occupant count and the prevalence fraction
ChooseTrialCount(N_val, covid_prevalence_val) ==
    LET TrialCountFor(expected_infectious) ==
            IF Lt(expected_infectious, Q(1, 2)) THEN 25000
            ELSE IF Lt(expected_infectious, F(2)) THEN 8000
            ELSE IF Lt(expected_infectious, F(5)) THEN 2000
            ELSE IF Lt(expected_infectious, F(10)) THEN 1000
            ELSE 300
    IN  TrialCountFor(Mul(F(N_val), covid_prevalence_val))

(***************************************************************************)
(* The engine as a state machine: calculate_unified_transmission_exposure  *)
(***************************************************************************)
VARIABLES
    frame,   \* the local state of each engine call, by call
    rng,     \* the number of variates drawn from the process-wide generator
    probe    \* the argument and the value of a helper evaluated on its own

vars == <<frame, rng, probe>>

\* the number of trials of the loop the model runs
MaxTrials == 2

\* the number of arguments, beyond the first, given a text that does not parse
MaxBad == 2

\* the texts an argument is given
FieldTexts(f) ==
    CASE f \in {"C0", "Q0", "p", "gamma", "omicron"} -> {"2", "abc", "nan"}
      [] f = "ACH" -> {"0", "abc"}
      [] f = "room_volume" -> {"0", "abc", Blank}
      [] f = "delta_t" -> {"-60", "-1e9", "abc"}
      [] f = "x" -> {"0.2", "2", "1e200", "nan", "inf", "abc"}
      [] f = "f_e" -> {"0.5", "abc"}
      [] f = "f_i" -> {"0.5", "abc"}
      [] f = "covid_prevalence" -> {"100", "abc", Blank}
      [] f = "immune" -> {"0", "0.5", "nan", "inf", "abc"}
      [] f = "N" -> {"0", "2", "-60", "0.5", "nan", "abc"}
      [] f = "percentage_masked" -> {"1", "nan", "abc"}

\* every argument left empty
AllEmpty == [f \in FieldSet |-> ""]


\* the sets of at most k arguments
RECURSIVE ArgumentSets(_)
ArgumentSets(k) ==
    IF k = 0 THEN {{}}
    ELSE LET S == ArgumentSets(k - 1)
         IN  S \cup {B \cup {f} : B \in S, f \in FieldSet}

\* the argument lists a caller passes: one argument given a text, and up to
\* MaxBad arguments given a text that is not a number
ArgChoices ==
    LET \* one argument given a text, the others left empty
        SingleEdits == {AllEmpty} \cup
            {[AllEmpty EXCEPT ![f] = t] : <<f, t>> \in
                UNION {{<<g, u>> : u \in FieldTexts(g)} : g \in FieldSet}}
    IN  {[f \in FieldSet |-> IF f \in B THEN "abc" ELSE a[f]] :
            a \in SingleEdits, B \in ArgumentSets(MaxBad)}

\* the validated values of lines 481-532: prevalence as a fraction, Q0 and p
\* rescaled
Validated(a) ==
    LET Rescaled(raw) ==
            [raw EXCEPT !["covid_prevalence"] = Div(raw["covid_prevalence"], F(100)),
                        !["Q0"] = Mul(Mul(raw["Q0"], raw["f_e"]), raw["omicron"]),
                        !["p"] = Mul(raw["p"], raw["f_i"])]
    IN  Rescaled([f \in FieldSet |-> Converted(a)[f][1]])

\* math.floor raises ValueError on a NaN and OverflowError on an infinity
FloorRaises(y) ==
    IF IsNaN(y) THEN "ValueError" ELSE IF IsInf(y) THEN "OverflowError" ELSE ""

activity_map(activity_choice) ==
    CASE activity_choice = "1" -> "Sedentary/Passive"
      [] activity_choice = "3" -> "Light"
      [] activity_choice = "4" -> "Moderate"
      [] activity_choice = "5" -> "Intense"
      [] OTHER -> "Standard"

\* the result dictionary of lines 563-589
InitialResult(v, kw) ==
    LET ResultWith(N_masked) ==
            [risk |-> Zero,
             q_e |-> Div(Mul(Mul(v.ACH, v.room_volume), F(1000)), F(3600)),
             ACH |-> v.ACH,
             room_volume |-> v.room_volume,
             activity_label |-> activity_map(kw.activity_choice),
             inputs |-> [f \in (FieldSet \ {"ACH", "room_volume"})
                                    \cup {"activity_choice"} |->
                            IF f = "activity_choice" THEN kw.activity_choice ELSE v[f]],
             N_masked |-> N_masked,
             N_unmasked |-> v.N - N_masked]
    IN  ResultWith(FloorInt(Mul(F(v.N), v.percentage_masked)))

\* the local state of a call before it starts, and of a trial before it starts
NoTrial ==
    [omicron_val_sim |-> Zero, ID50 |-> Zero, BR |-> Zero,
     total_dose |-> Zero, infectious_count |-> 0, person |-> 0]

IdleFrame ==
    [pc |-> "idle", args |-> AllEmpty, kw |-> DefaultKw, vals |-> << >>,
     n_sims |-> 0, i |-> 0, all_risks_pf |-> << >>, trial |-> NoTrial,
     result |-> [k \in {} |-> Zero], exc |-> "", rng0 |-> 0]

\* the engine calls of a behaviour
Calls == {1}

Init ==
    /\ frame = [c \in Calls |-> IdleFrame]
    /\ rng = 0
    /\ probe = [op |-> "none"]

\* a rejection placed after the set-up of lines 563-621: the risk array and
\* the trial count exist when the error object is returned
RejectedAfterSetup(fr, a, start) ==
    [fr EXCEPT !.pc = "returned", !.args = a, !.rng0 = start,
               !.result = ErrorResult, !.n_sims = 300,
               !.all_risks_pf = [k \in 1..MaxTrials |-> Zero]]

\* lines 527-530: the call's local state when any(errors) holds
Rejected(fr, a, start) ==
    [fr EXCEPT !.pc = "returned", !.args = a, !.rng0 = start,
               !.result = ErrorResult]

\* lines 474-621: the call's local state after validation, the result
\* dictionary and the trial count, for the arguments a
Entered(fr, a, start) ==
    LET \* the length of the modelled risk array: the first trials of the n_sims
        ModelledTrials(n_sims) == IF n_sims < MaxTrials THEN n_sims ELSE MaxTrials
        \* the call's local state once the arguments validated to v
        Started(v, masked) ==
            IF masked # ""
            THEN [fr EXCEPT !.pc = "raised", !.args = a, !.rng0 = start, !.vals = v,
                            !.exc = masked]
            ELSE [fr EXCEPT !.pc = "trial", !.args = a, !.rng0 = start, !.vals = v,
                            !.result = InitialResult(v, fr.kw),
                            !.n_sims = ChooseTrialCount(v.N, v.covid_prevalence),
                            !.all_risks_pf =
                                [k \in 1..ModelledTrials(
                                    ChooseTrialCount(v.N, v.covid_prevalence)) |-> Zero]]
        Validate(v) ==
            Started(v, FloorRaises(Mul(F(v.N), v.percentage_masked)))
    IN  IF AnyErrors(a) THEN Rejected(fr, a, start) ELSE Validate(Validated(a))

\* the engine called with one of the argument lists
Call(c) ==
    /\ frame[c].pc = "idle"
    /\ \E a \in ArgChoices : frame' = [frame EXCEPT ![c] = Entered(@, a, rng)]
    /\ UNCHANGED <<rng, probe>>

\* the start of a trial with the accumulator left as the trial before it
\* left it: the dose starts from the risk stored last
TrialBeginCarrying(c) ==
    /\ frame[c].pc = "trial"
    /\ \E z \in OmicronZ, u \in ID50U, zb \in BreathingZ :
        LET activity == frame[c].kw.user_physical_activity
        IN  frame' = [frame EXCEPT
                ![c].pc = IF frame[c].vals.N > 0 THEN "person" ELSE "dose",
                ![c].trial =
                    [omicron_val_sim |-> sample_omicron_transmissibility_bayesian(z),
                     ID50 |-> Uniform(F(10), F(100), u),
                     BR |-> LogNormal(get_henriques_breathing_rate(activity),
                                      BreathingSigma(activity), zb),
                     total_dose |-> IF frame[c].i > 0
                                    THEN frame[c].all_risks_pf[frame[c].i] ELSE Zero,
                     infectious_count |-> 0,
                     person |-> 0]]
    /\ rng' = rng + 3
    /\ UNCHANGED probe

\* lines 623-684: the call's local state after the draws made once per trial
TrialDraws(fr, z, u, zb) ==
    LET activity == fr.kw.user_physical_activity
    IN  [fr EXCEPT
            !.pc = IF fr.vals.N > 0 THEN "person" ELSE "dose",
            !.trial =
                [omicron_val_sim |-> sample_omicron_transmissibility_bayesian(z),
                 ID50 |-> Uniform(F(10), F(100), u),
                 BR |-> LogNormal(get_henriques_breathing_rate(activity),
                                  BreathingSigma(activity), zb),
                 total_dose |-> Zero,
                 infectious_count |-> 0,
                 person |-> 0]]

\* the start of a trial when every call but the first draws from a generator
\* of its own
TrialBeginPrivateGenerator(c) ==
    /\ frame[c].pc = "trial"
    /\ \E z \in OmicronZ, u \in ID50U, zb \in BreathingZ :
        frame' = [frame EXCEPT ![c] = TrialDraws(@, z, u, zb)]
    /\ rng' = IF c = 1 THEN rng + 3 ELSE rng
    /\ UNCHANGED probe

\* the start of a trial
TrialBegin(c) ==
    /\ frame[c].pc = "trial"
    /\ \E z \in OmicronZ, u \in ID50U, zb \in BreathingZ :
        frame' = [frame EXCEPT ![c] = TrialDraws(@, z, u, zb)]
    /\ rng' = rng + 3
    /\ UNCHANGED probe

\* the position after one more person of range(N_val)
AfterPerson(c) ==
    IF frame[c].trial.person + 1 < frame[c].vals.N THEN "person" ELSE "dose"

\* lines 686-690: a person who is drawn as not infectious
PersonNotInfectious(c) ==
    /\ frame[c].pc = "person"
    /\ \E u \in InfectiousU :
        /\ ~Lt(u, frame[c].vals.covid_prevalence)
        /\ frame' = [frame EXCEPT ![c].pc = AfterPerson(c),
                                  ![c].trial.person = @ + 1]
    /\ rng' = rng + 1
    /\ UNCHANGED probe

\* lines 691-772: the call's local state after an infectious person, for
\* the draws of the person
InfectiousPerson(fr, w, uf, zb, um, next) ==
    LET \* the call's local state after an infectious person with this dose
        AfterDose(raises, person_dose) ==
            IF raises # ""
            THEN [fr EXCEPT !.pc = "raised", !.exc = raises,
                            !.trial.infectious_count = @ + 1]
            ELSE [fr EXCEPT !.pc = next,
                            !.trial.person = @ + 1,
                            !.trial.infectious_count = @ + 1,
                            !.trial.total_dose = Add(@, person_dose)]
        JetPerson(vlin, f_inf, others_BR, exhalation_filter, jet) ==
            AfterDose(DilutionRaises(fr.vals.x, jet.x_transition),
                      PersonDose(fr.vals, fr.kw, fr.trial.omicron_val_sim, fr.trial.BR,
                                     vlin, f_inf, others_BR, exhalation_filter, jet))
        BreathingPerson(vlin, f_inf, others_BR, exhalation_filter) ==
            JetPerson(vlin, f_inf, others_BR, exhalation_filter,
                      calculate_henriques_jet_parameters(others_BR))
    IN  BreathingPerson(
            SampleViralLoad(w), Uniform(Q(1, 100), Q(60, 100), uf),
            LogNormal(get_henriques_breathing_rate(fr.kw.others_physical_activity),
                      BreathingSigma(fr.kw.others_physical_activity), zb),
            IF Lt(um, fr.vals.percentage_masked) THEN fr.vals.f_e ELSE F(1))

\* lines 686-772: an infectious person, the draws and the dose
PersonInfectious(c) ==
    /\ frame[c].pc = "person"
    /\ \E u \in InfectiousU, w \in WeibullW, uf \in FInfU, zb \in BreathingZ, um \in MaskU :
        /\ Lt(u, frame[c].vals.covid_prevalence)
        /\ frame' = [frame EXCEPT ![c] =
                InfectiousPerson(@, w, uf, zb, um, AfterPerson(c))]
    /\ rng' = rng + 5
    /\ UNCHANGED probe

\* the position after one more trial of range(n_sims)
AfterTrial(c) ==
    IF frame[c].i + 1 < Len(frame[c].all_risks_pf) THEN "trial" ELSE "summarize"

\* lines 786-814: the call's local state after the dose-response with the
\* protection factor PF
Respond(fr, PF, next) ==
    LET AfterResponse(raises) ==
            IF raises # ""
            THEN [fr EXCEPT !.pc = "raised", !.exc = raises]
            ELSE [fr EXCEPT !.pc = next,
                            !.all_risks_pf[fr.i + 1] =
                                RiskPF(fr.trial.total_dose, fr.trial.ID50, PF),
                            !.i = @ + 1,
                            !.trial = NoTrial]
    IN  AfterResponse(DoseResponseRaises(fr.trial.total_dose, fr.trial.infectious_count,
                                         fr.trial.ID50, PF))

\* lines 786-814: the protection factor, the trial's risk and its slot
DoseResponse(c) ==
    /\ frame[c].pc = "dose"
    /\ IF LogRaises(frame[c].vals.immune)
       THEN /\ frame' = [frame EXCEPT ![c].pc = "raised", ![c].exc = "ValueError"]
            /\ rng' = rng
       ELSE /\ \E z \in ProtectionZ :
                frame' = [frame EXCEPT ![c] =
                    Respond(@, ProtectionFactor(@.vals.immune, z), AfterTrial(c))]
            /\ rng' = IF SamplesPF(frame[c].vals.immune) THEN rng + 1 ELSE rng
    /\ UNCHANGED probe

\* the exception generate_risk_distribution_data raises inside the try
\* block of lines 849-855, or the object it returns
DistributionOrNone(all_risks_pf) ==
    IF DistributionRaises(all_risks_pf) # "" THEN "None"
    ELSE generate_risk_distribution_data(all_risks_pf)

\* lines 816-844: the summary keys
SummaryKeys(all_risks_pf) ==
    LET SummaryOf(mc_mean_pf, median, ci_5, ci_95, ci_25, ci_75, ci_0_5, ci_99_5) ==
            [mc_mean_pf |-> mc_mean_pf, mc_pf_ci_5 |-> ci_5, mc_pf_ci_95 |-> ci_95,
             mc_pf_ci_25 |-> ci_25, mc_pf_ci_75 |-> ci_75, mc_pf_ci_0_5 |-> ci_0_5,
             mc_pf_ci_99_5 |-> ci_99_5, mc_pf_median |-> median,
             risk |-> mc_mean_pf, mc_mean |-> mc_mean_pf, mc_median |-> median,
             mc_ci_5 |-> ci_5, mc_ci_95 |-> ci_95, mc_ci_25 |-> ci_25,
             mc_ci_75 |-> ci_75, mc_ci_0_5 |-> ci_0_5, mc_ci_99_5 |-> ci_99_5]
    IN  SummaryOf(Mean(all_risks_pf), Percentile(all_risks_pf, 50, 1),
                  Percentile(all_risks_pf, 5, 1), Percentile(all_risks_pf, 95, 1),
                  Percentile(all_risks_pf, 25, 1), Percentile(all_risks_pf, 75, 1),
                  Percentile(all_risks_pf, 1, 2), Percentile(all_risks_pf, 199, 2))

\* the summary without the try block of lines 849-855: an exception of
\* generate_risk_distribution_data leaves the call
SummarizeUncaught(c) ==
    /\ frame[c].pc = "summarize"
    /\ frame' = [frame EXCEPT
            ![c].pc = IF DistributionRaises(frame[c].all_risks_pf) # ""
                      THEN "raised" ELSE "returned",
            ![c].exc = DistributionRaises(frame[c].all_risks_pf),
            ![c].result =
                IF DistributionRaises(frame[c].all_risks_pf) # ""
                THEN SummaryKeys(frame[c].all_risks_pf) @@ @
                ELSE ([risk_distribution_data |->
                          generate_risk_distribution_data(frame[c].all_risks_pf)]
                      @@ SummaryKeys(frame[c].all_risks_pf)) @@ @]
    /\ UNCHANGED <<rng, probe>>

\* lines 816-863: the call's local state at the return
Summarized(fr) ==
    [fr EXCEPT
        !.pc = "returned",
        !.result =
            ([risk_distribution_data |-> DistributionOrNone(fr.all_risks_pf)]
             @@ SummaryKeys(fr.all_risks_pf)) @@ @]

\* lines 816-863: the summary, the distribution object, the return
Summarize(c) ==
    /\ frame[c].pc = "summarize"
    /\ frame' = [frame EXCEPT ![c] = Summarized(@)]
    /\ UNCHANGED <<rng, probe>>

Next ==
    \/ \E c \in Calls : Call(c)
    \/ \E c \in Calls : TrialBegin(c)
    \/ \E c \in Calls : PersonNotInfectious(c)
    \/ \E c \in Calls : PersonInfectious(c)
    \/ \E c \in Calls : DoseResponse(c)
    \/ \E c \in Calls : Summarize(c)

Spec == Init /\ [][Next]_vars

(***************************************************************************)
(* The trial count on its own: ChooseTrialCount over occupant counts and   *)
(* prevalence percentages                                                  *)
(***************************************************************************)
MaxProbeN == 12

ProbeN == -1..MaxProbeN

\* prevalence inputs, in percent
ProbePct == {0, 1, 10, 25, 49, 50, 51, 99, 100, 150}

InitTrialCount ==
    /\ frame = [c \in Calls |-> IdleFrame]
    /\ rng = 0
    /\ probe \in {[op |-> "trial_count", stage |-> "in", N |-> n, pct |-> q,
                   n_sims |-> 0] : n \in ProbeN, q \in ProbePct}

\* lines 516 and 599-610 applied to the occupant count and the percentage
SelectTrialCount ==
    /\ probe.op = "trial_count"
    /\ probe.stage = "in"
    /\ probe' = [probe EXCEPT
            !.stage = "out",
            !.n_sims = ChooseTrialCount(probe.N, Div(F(probe.pct), F(100)))]
    /\ UNCHANGED <<frame, rng>>

SpecTrialCount == InitTrialCount /\ [][SelectTrialCount]_vars

(***************************************************************************)
(* The summariser on its own: generate_risk_distribution_data over risk    *)
(* arrays                                                                  *)
(***************************************************************************)
\* the longest risk array summarised
MaxLen == 3

\* the arrays of at most MaxLen values, two of the values not risks (1.2
\* and NaN)
RiskArrays ==
    LET RiskValues == {Zero, Q(1, 100), Q(1, 10), Q(1, 2), F(1), Q(12, 10), NaN}
    IN  UNION {[1..n -> RiskValues] : n \in 0..MaxLen}

InitDistribution ==
    /\ frame = [c \in Calls |-> IdleFrame]
    /\ rng = 0
    /\ probe \in {[op |-> "distribution", stage |-> "in", arr |-> a,
                   raised |-> "", data |-> "None"] : a \in RiskArrays}

\* generate_risk_distribution_data applied to the array: it raises or returns
GenerateDistribution ==
    /\ probe.op = "distribution"
    /\ probe.stage = "in"
    /\ probe' = [probe EXCEPT
            !.stage = "out",
            !.raised = DistributionRaises(probe.arr),
            !.data = DistributionOrNone(probe.arr)]
    /\ UNCHANGED <<frame, rng>>

SpecDistribution == InitDistribution /\ [][GenerateDistribution]_vars

(***************************************************************************)
(* The helpers on their own: the two validators over values and texts, and *)
(* of the helpers of a trial the dilution factor at the                    *)
(* transition distance over sampled breathing rates, the short-range decay *)
(* over distances, jet velocities and humidities, the particle grid, and   *)
(* the protection factor over the immunity values validation lets through  *)
(***************************************************************************)
\* Breathing rates as np.random.lognormal gives them (lines 704-715), one per
\* physical activity and normal variate; distances [m], jet velocities [m/s]
\* and relative humidities for the decay; every index of the particle grid;
\* the immunity values safe_float converts, with the normal variate of PF.
InitPhysics ==
    LET PhysicalActivities == {"sitting", "standing", "light", "moderate", "heavy"}
        BreathingDraws == {F(-2), F(-1), Zero, F(1), F(2)}
        BreathingRates ==
            {LogNormal(get_henriques_breathing_rate(a), BreathingSigma(a), z) :
                a \in PhysicalActivities, z \in BreathingDraws}
        DecayDistances == {Zero, Q(2, 10), Q(7, 10), F(2), F(100)}
        JetVelocities == {Zero, Q(1, 10), Q(1008, 1000), F(5)}
        Humidities == {Zero, Q(20, 100), Q(40, 100), Q(4001, 10000), Q(41, 100), F(1)}
        Immunities == {FloatOf(t) : t \in FloatTexts} \cup {Q(1, 100), Q(2, 100)}
        ProtectionDraws == {F(-2), Zero, F(2)}
        QueryDistances == {Zero, Q(2, 10), Q(7, 10), F(2), F(100), NaN, PInf}
        VocalActivities == {"breathing", "just_breathing", "speaking", "loudly_speaking",
                            "loud_speaking", "shouting", "singing", ""}
        NormalDraws == {F(-10), F(-4), F(-1), Zero, F(1), F(4), F(10)}
        UniformDraws == {Zero, Q(1, 2), Q(9999, 10000)}
        WeibullDraws == {Zero, Q(1, 10), Q(1, 2), F(1), F(2), F(5)}
        Values == {None, "", Blank, " 2 ", "abc", "0.5", "2", "nan", "-60", "1e200"}
    IN  /\ frame = [c \in Calls |-> IdleFrame]
        /\ rng = 0
        /\ probe \in
            {[op |-> "dilution", stage |-> "in", BR |-> b, x_transition |-> Zero,
              jet |-> Zero, puff |-> Zero, Sx_sim |-> Zero] : b \in BreathingRates}
            \cup {[op |-> "decay", stage |-> "in", x |-> d, u0 |-> u, RH |-> h,
                   raised |-> "", lambda_SR |-> Zero] :
                     d \in DecayDistances, u \in JetVelocities, h \in Humidities}
            \cup {[op |-> "deposition", stage |-> "in", idx |-> k, value |-> Zero] :
                     k \in 1..GridLen}
            \cup {[op |-> "width", stage |-> "in", idx |-> 1, value |-> Zero,
                   total |-> Zero]}
            \cup {[op |-> "regime", stage |-> "in", BR |-> b, x_eff |-> d,
                   x_transition |-> Zero, regime |-> "", raised |-> "",
                   Sx_sim |-> Zero] : b \in BreathingRates, d \in QueryDistances}
            \cup {[op |-> "emission", stage |-> "in", vocal_activity |-> a, idx |-> k,
                   activity_choice |-> "", emission |-> Zero] :
                     a \in VocalActivities, k \in 1..GridLen}
            \cup {[op |-> "samples", stage |-> "in", z |-> z, u |-> u, w |-> w, uf |-> uf,
                   omicron_val_sim |-> Zero, ID50 |-> Zero, vlin_log10 |-> Zero,
                   vlin |-> Zero, f_inf |-> Zero] :
                     z \in NormalDraws, u \in UniformDraws, w \in WeibullDraws,
                     uf \in UniformDraws}
            \cup {[op |-> "convert", stage |-> "in", fn |-> "safe_float",
                   value |-> t, default |-> d, out |-> << >>] :
                     t \in Values, d \in {Zero, Q(99, 10)}}
            \cup {[op |-> "convert", stage |-> "in", fn |-> "safe_int",
                   value |-> t, int_default |-> d, out |-> << >>] :
                     t \in Values, d \in {0, 7}}
            \cup {[op |-> "protection", stage |-> "in", immune_val |-> v, z |-> d,
                   raised |-> "", sampled |-> FALSE, PF |-> Zero] :
                     v \in Immunities, d \in ProtectionDraws}

\* lines 722-738 at x_eff = mc_x_transition: both stages, and the one used
DilutionAtTransition ==
    /\ probe.op = "dilution"
    /\ probe.stage = "in"
    /\ LET AtDistance(xt) ==
               [probe EXCEPT !.stage = "out", !.x_transition = xt,
                             !.jet = JetDilution(xt),
                             !.puff = PuffDilution(xt, xt),
                             !.Sx_sim = DilutionFactor(xt, xt)]
       IN  probe' = AtDistance(calculate_henriques_jet_parameters(probe.BR).x_transition)
    /\ UNCHANGED <<frame, rng>>

\* short_range_viability_decay applied: x / u0 raises on a zero velocity
\* when the humidity takes the decay branch
ApplyDecay ==
    /\ probe.op = "decay"
    /\ probe.stage = "in"
    /\ probe' =
        IF Le(probe.RH, Q(40, 100)) /\ IsZero(probe.u0)
        THEN [probe EXCEPT !.stage = "out", !.raised = "ZeroDivisionError"]
        ELSE [probe EXCEPT !.stage = "out",
                !.lambda_SR = short_range_viability_decay(probe.x, probe.u0, probe.RH)]
    /\ UNCHANGED <<frame, rng>>

\* deposition_fraction(Dv) at a diameter of the grid (line 779)
EvaluateDeposition ==
    /\ probe.op = "deposition"
    /\ probe.stage = "in"
    /\ probe' = [probe EXCEPT !.stage = "out", !.value = deposition_fraction(probe.idx)]
    /\ UNCHANGED <<frame, rng>>

\* width = dDs[idx] (line 746), one bin after another over the whole grid,
\* the widths read so far added up in total
EvaluateWidth ==
    /\ probe.op = "width"
    /\ probe.stage = "in"
    /\ probe' = [probe EXCEPT
                    !.stage = IF probe.idx = GridLen THEN "out" ELSE "in",
                    !.idx = IF probe.idx = GridLen THEN GridLen ELSE probe.idx + 1,
                    !.value = dDs[probe.idx],
                    !.total = Add(probe.total, dDs[probe.idx])]
    /\ UNCHANGED <<frame, rng>>

\* lines 797-808: the protection factor of one trial
SampleProtection ==
    /\ probe.op = "protection"
    /\ probe.stage = "in"
    /\ probe' =
        IF LogRaises(probe.immune_val)
        THEN [probe EXCEPT !.stage = "out", !.raised = "ValueError"]
        ELSE [probe EXCEPT !.stage = "out",
                !.sampled = SamplesPF(probe.immune_val),
                !.PF = ProtectionFactor(probe.immune_val, probe.z)]
    /\ UNCHANGED <<frame, rng>>

\* lines 723-738: the branch taken for the distance x_eff and the dilution
\* factor it gives
SelectRegime ==
    /\ probe.op = "regime"
    /\ probe.stage = "in"
    /\ LET Selected(xt) ==
               [probe EXCEPT
                   !.stage = "out",
                   !.x_transition = xt,
                   !.regime = IF Lt(probe.x_eff, xt) THEN "jet-like" ELSE "puff-like",
                   !.raised = DilutionRaises(probe.x_eff, xt),
                   !.Sx_sim = IF DilutionRaises(probe.x_eff, xt) # "" THEN Zero
                              ELSE DilutionFactor(probe.x_eff, xt)]
       IN  probe' = Selected(calculate_henriques_jet_parameters(probe.BR).x_transition)
    /\ UNCHANGED <<frame, rng>>

\* lines 97-107 and 36-76: the activity code of a vocal activity and the
\* emission spectrum it gives at a diameter of the grid
EvaluateEmission ==
    /\ probe.op = "emission"
    /\ probe.stage = "in"
    /\ LET Emitted(code) ==
               [probe EXCEPT !.stage = "out", !.activity_choice = code,
                             !.emission = emission_spectrum_henriques(probe.idx, code)]
       IN  probe' = Emitted(get_henriques_vocalization_activity(probe.vocal_activity))
    /\ UNCHANGED <<frame, rng>>

\* lines 626, 629 and 693-700: the samples of a trial and of an infectious
\* occupant for the variates z, u, w and uf
DrawSamples ==
    /\ probe.op = "samples"
    /\ probe.stage = "in"
    /\ probe' = [probe EXCEPT
                    !.stage = "out",
                    !.omicron_val_sim = sample_omicron_transmissibility_bayesian(probe.z),
                    !.ID50 = Uniform(F(10), F(100), probe.u),
                    !.vlin_log10 = vlin_log10(probe.w),
                    !.vlin = SampleViralLoad(probe.w),
                    !.f_inf = Uniform(Q(1, 100), Q(60, 100), probe.uf)]
    /\ UNCHANGED <<frame, rng>>

\* safe_float(value, default) or safe_int(value, default)
ConvertValue ==
    /\ probe.op = "convert"
    /\ probe.stage = "in"
    /\ probe' = [probe EXCEPT
                    !.stage = "out",
                    !.out = IF probe.fn = "safe_float"
                            THEN SafeFloat(probe.value, probe.default)
                            ELSE SafeInt(probe.value, probe.int_default)]
    /\ UNCHANGED <<frame, rng>>

NextPhysics ==
    \/ DilutionAtTransition
    \/ ApplyDecay
    \/ EvaluateDeposition
    \/ EvaluateWidth
    \/ SampleProtection
    \/ ConvertValue
    \/ SelectRegime
    \/ EvaluateEmission
    \/ DrawSamples

SpecPhysics == InitPhysics /\ [][NextPhysics]_vars

(***************************************************************************)
(* The exposure handler: one engine call, or two calls in a pool of two    *)
(* workers whose results are averaged                                      *)
(***************************************************************************)
\* the workers of ThreadPoolExecutor(max_workers=2)
Workers == {1, 2}

InitHandler ==
    LET \* the texts of the form passed on to the engine
        Quick == [AllEmpty EXCEPT !["delta_t"] = "0", !["covid_prevalence"] = "100"]
        Alone == [AllEmpty EXCEPT !["N"] = "0"]
        Bad == [AllEmpty EXCEPT !["ACH"] = "abc"]
        \* immunocompromised and immunocompromised_severity of the form, and
        \* the texts
        Forms == {<<"unsure", "", Quick>>, <<"unsure", "", Alone>>, <<"unsure", "", Bad>>,
                  <<"Yes", "unsure", Alone>>, <<"Yes", "severe", Quick>>,
                  <<"Yes", "moderate", Alone>>, <<"No", "", AllEmpty>>}
    IN  /\ frame = [c \in Workers |-> IdleFrame]
        /\ rng = 0
        /\ probe \in {[op |-> "handler", stage |-> "request",
                        immunocompromised |-> f[1],
                        immunocompromised_severity |-> f[2],
                        args |-> f[3], statuses |-> << >>,
                        result |-> [k \in {} |-> Zero], exc |-> ""] :
                       f \in Forms}

\* lines 304-317, 349-373 and 404-414: the statuses the engine is called
\* with, one call per status
Submit ==
    LET Statuses(immunocompromised, severity) ==
            IF immunocompromised = "unsure" THEN <<"normal", "moderate">>
            ELSE IF immunocompromised = "Yes" /\ severity = "unsure"
                 THEN <<"moderate", "severe">>
            ELSE IF immunocompromised = "Yes" /\ severity \in {"moderate", "severe"}
                 THEN <<severity>>
            ELSE <<"normal">>
        Submitted(statuses) ==
            /\ probe' = [probe EXCEPT !.stage = "running", !.statuses = statuses]
            /\ frame' = [c \in Workers |->
                            IF c \in DOMAIN statuses
                            THEN [IdleFrame EXCEPT
                                      !.kw.immunocompromised_status = statuses[c]]
                            ELSE IdleFrame]
    IN  /\ probe.op = "handler"
        /\ probe.stage = "request"
        /\ Submitted(Statuses(probe.immunocompromised, probe.immunocompromised_severity))
        /\ UNCHANGED rng

\* calc_func(status) entered by worker c: the engine validates the texts of
\* the form
calc_func(c) ==
    /\ probe.op = "handler"
    /\ probe.stage = "running"
    /\ c \in DOMAIN probe.statuses
    /\ frame[c].pc = "idle"
    /\ frame' = [frame EXCEPT ![c] = Entered(@, probe.args, rng)]
    /\ UNCHANGED <<rng, probe>>

\* lines 319-344, 375-400 and 416-421: the results of the calls are
\* collected, and those of two calls are averaged key by key
Collect ==
    LET average == <<"risk", "old_risk", "new_risk", "mc_mean", "mc_ci_5", "mc_ci_95",
                     "mc_ci_25", "mc_ci_75", "mc_ci_0_5", "mc_ci_99_5", "mc_median">>
        \* the keys of the list that one of the results lacks
        Absent(first, second) ==
            {k \in 1..Len(average) :
                average[k] \notin DOMAIN first \/ average[k] \notin DOMAIN second}
        Averaged(first, second) ==
            IF Absent(first, second) # {}
            THEN [probe EXCEPT !.stage = "raised", !.exc = "KeyError"]
            ELSE [probe EXCEPT
                    !.stage = "computed",
                    !.result =
                        [k \in DOMAIN first |->
                            IF \E j \in 1..Len(average) : average[j] = k
                            THEN Div(Add(first[k], second[k]), F(2))
                            ELSE first[k]]]
        \* future.result() raises what the call raised
        Raised(c) == [probe EXCEPT !.stage = "raised", !.exc = frame[c].exc]
    IN  /\ probe.op = "handler"
        /\ probe.stage = "running"
        /\ \A c \in DOMAIN probe.statuses : frame[c].pc \in {"returned", "raised"}
        /\ probe' =
                IF \E c \in DOMAIN probe.statuses : frame[c].pc = "raised"
                THEN Raised(CHOOSE c \in DOMAIN probe.statuses :
                                /\ frame[c].pc = "raised"
                                /\ \A d \in DOMAIN probe.statuses :
                                        frame[d].pc = "raised" => c <= d)
                ELSE IF Len(probe.statuses) = 2
                THEN Averaged(frame[1].result, frame[2].result)
                ELSE [probe EXCEPT !.stage = "computed", !.result = frame[1].result]
        /\ UNCHANGED <<frame, rng>>

NextHandler ==
    \/ Submit
    \/ \E c \in Workers : calc_func(c)
    \/ \E c \in Workers : TrialBegin(c)
    \/ \E c \in Workers : PersonNotInfectious(c)
    \/ \E c \in Workers : PersonInfectious(c)
    \/ \E c \in Workers : DoseResponse(c)
    \/ \E c \in Workers : Summarize(c)
    \/ Collect

SpecHandler == InitHandler /\ [][NextHandler]_vars

(***************************************************************************)
(* Properties of the engine and of the summariser                          *)
(***************************************************************************)
\* the keys of the result that report a risk
RiskKeys ==
    {"risk", "mc_mean", "mc_median", "mc_ci_0_5", "mc_ci_5", "mc_ci_25",
     "mc_ci_75", "mc_ci_95", "mc_ci_99_5"}

\* a finite value of [0, 1]
IsRisk(r) == IsFin(r) /\ Le(Zero, r) /\ Le(r, F(1))

ReturnedError(c) ==
    frame[c].pc = "returned" /\ "error" \in DOMAIN frame[c].result

ReturnedResult(c) ==
    frame[c].pc = "returned" /\ "error" \notin DOMAIN frame[c].result

\* the call went past validation
PassedValidation(c) == frame[c].pc # "idle" /\ ~ReturnedError(c)

\* a text that is not empty and that float() does not convert
NotANumber(t) == t # "" /\ t \notin FloatTexts

\* a text that, stripped, is not empty and that the argument's conversion
\* (int() for N, float() for the others) rejects
InvalidText(f, t) ==
    Strip(t) # "" /\ Strip(t) \notin (IF f = "N" THEN IntTexts ELSE FloatTexts)

RECURSIVE SumCounts(_)
SumCounts(counts) ==
    IF counts = << >> THEN 0 ELSE counts[1] + SumCounts(Tail(counts))

\* the summariser returned an object for the array
DistributionReturned ==
    probe.op = "distribution" /\ probe.stage = "out" /\ probe.raised = ""

\* C1: for every input that passes validation, every reported risk value
\* (risk, mc_mean, mc_median, the percentile bounds) and every per-trial risk
\* of the risk array lies in [0, 1].
C1_RisksInUnitInterval ==
    \A c \in Calls :
        PassedValidation(c) =>
            /\ \A k \in 1..Len(frame[c].all_risks_pf) : IsRisk(frame[c].all_risks_pf[k])
            /\ ReturnedResult(c) => \A key \in RiskKeys : IsRisk(frame[c].result[key])

\* C2, as stated: a call with any argument that is non-empty and does not
\* parse as a number returns exactly the one-key error object.
C2_NonNumericTextRejected ==
    \A c \in Calls :
        (\E f \in FieldSet : NotANumber(frame[c].args[f])) =>
            /\ frame[c].pc = "returned"
            /\ frame[c].result = [error |-> "Invalid input; please enter numeric values."]

\* C2, amended: a call with any argument that, stripped of surrounding white
\* space, is non-empty and is rejected by its conversion (int() for N, float()
\* for the others) returns exactly the one-key error object, whichever and
\* however many arguments are invalid, with no risk key.
C2_InvalidTextRejected ==
    \A c \in Calls :
        (\E f \in FieldSet : InvalidText(f, frame[c].args[f])) =>
            /\ frame[c].pc = "returned"
            /\ frame[c].result = [error |-> "Invalid input; please enter numeric values."]
            /\ "risk" \notin DOMAIN frame[c].result

\* a call rejected with two or more invalid arguments
C2_Witness ==
    \E c \in Calls :
        /\ ReturnedError(c)
        /\ Cardinality({f \in FieldSet : InvalidText(f, frame[c].args[f])}) >= 2

\* C3: when validation fails the call returns before any simulation step: no
\* trial ran, no variate was drawn from the generator, no risk array and no
\* result dictionary exist, only the error object.
C3_RejectionLeavesNoState ==
    \A c \in Calls :
        AnyErrors(frame[c].args) =>
            /\ frame[c].pc = "returned"
            /\ rng = frame[c].rng0
            /\ frame[c].n_sims = 0
            /\ frame[c].i = 0
            /\ frame[c].all_risks_pf = << >>
            /\ frame[c].trial = NoTrial
            /\ frame[c].vals = << >>
            /\ DOMAIN frame[c].result = {"error"}

\* a call rejected for an occupant count that int() does not convert
C3_Witness ==
    \E c \in Calls :
        /\ ReturnedError(c)
        /\ frame[c].args["N"] = "0.5"
        /\ frame[c].all_risks_pf = << >>
        /\ rng = frame[c].rng0

\* C4: after validation succeeds every validated field is a finite number:
\* "nan", "inf" or "-inf" never reaches the simulation as a field value.
C4_ValidatedFieldsFinite ==
    \A c \in Calls :
        PassedValidation(c) =>
            \A f \in FieldSet \ {"N"} : IsFin(frame[c].vals[f])

\* C5: with E = occupant count x prevalence fraction, the trial count is 25000
\* for E < 0.5, 8000 for 0.5 <= E < 2, 2000 for 2 <= E < 5, 1000 for
\* 5 <= E < 10 and 300 for E >= 10 (E in hundredths below), and it never
\* increases as E increases.
C5_TrialCountBands ==
    (probe.op = "trial_count" /\ probe.stage = "out") =>
        /\ probe.n_sims =
              (IF probe.N * probe.pct < 50 THEN 25000
               ELSE IF probe.N * probe.pct < 200 THEN 8000
               ELSE IF probe.N * probe.pct < 500 THEN 2000
               ELSE IF probe.N * probe.pct < 1000 THEN 1000
               ELSE 300)
        /\ \A n \in ProbeN, q \in ProbePct :
              n * q >= probe.N * probe.pct =>
                  ChooseTrialCount(n, Div(F(q), F(100))) <= probe.n_sims

\* the trial count taken at a band limit: E = 0.5, 2, 5 or 10
C5_Witness ==
    /\ probe.op = "trial_count"
    /\ probe.stage = "out"
    /\ \/ probe.N * probe.pct = 50 /\ probe.n_sims = 8000
       \/ probe.N * probe.pct = 200 /\ probe.n_sims = 2000
       \/ probe.N * probe.pct = 500 /\ probe.n_sims = 1000
       \/ probe.N * probe.pct = 1000 /\ probe.n_sims = 300

\* C6, as stated: whenever the summariser returns an object, the sum of
\* histogram.counts equals histogram.total_simulations, the length of the array.
C6_CountsSumToTotal ==
    DistributionReturned =>
        /\ probe.data.histogram.total_simulations = Len(probe.arr)
        /\ SumCounts(probe.data.histogram.counts)
              = probe.data.histogram.total_simulations

\* C6, amended: whenever the summariser returns an object, the sum of
\* histogram.counts equals the number of risks between the first and the last
\* bin edge, both included, which is at most histogram.total_simulations, the
\* length of the array.
C6_CountsSumToRisksWithinEdges ==
    DistributionReturned =>
        LET edges == probe.data.histogram.edges
        IN  /\ probe.data.histogram.total_simulations = Len(probe.arr)
            /\ SumCounts(probe.data.histogram.counts)
                  = Cardinality({k \in 1..Len(probe.arr) :
                        /\ Le(edges[1], probe.arr[k])
                        /\ Le(probe.arr[k], edges[Len(edges)])})
            /\ SumCounts(probe.data.histogram.counts)
                  <= probe.data.histogram.total_simulations

\* an object whose histogram leaves a risk of the array out
C6_Witness ==
    /\ DistributionReturned
    /\ SumCounts(probe.data.histogram.counts) < Len(probe.arr)

\* C7: whenever the summariser returns an object, the number of bin edges is
\* one more than the number of counts, and validate_risk_distribution_data
\* accepts the object.
C7_EdgesOneMoreThanCounts ==
    DistributionReturned =>
        /\ Len(probe.data.histogram.edges) = Len(probe.data.histogram.counts) + 1
        /\ validate_risk_distribution_data(probe.data)

\* an object with several bins
C7_Witness ==
    /\ DistributionReturned
    /\ Len(probe.data.histogram.counts) >= 2
    /\ Len(probe.data.histogram.edges) = Len(probe.data.histogram.counts) + 1

\* C8: a failure while building the distribution object never aborts the
\* engine: the step that follows the loop always returns, with risk, mean,
\* median and every percentile key set, and with risk_distribution_data None
\* when generate_risk_distribution_data raised.
C8_DistributionFailureDegrades ==
    [][\A c \in Calls :
        frame[c].pc = "summarize" =>
            /\ frame'[c].pc = "returned"
            /\ RiskKeys \cup {"risk_distribution_data"} \subseteq DOMAIN frame'[c].result
            /\ frame'[c].result.risk = Mean(frame[c].all_risks_pf)
            /\ frame'[c].result.mc_median = Percentile(frame[c].all_risks_pf, 50, 1)
            /\ DistributionRaises(frame[c].all_risks_pf) # "" =>
                  frame'[c].result.risk_distribution_data = "None"]_vars

\* a call that returned its statistics although the distribution failed
C8_Witness ==
    \E c \in Calls :
        /\ ReturnedResult(c)
        /\ DistributionRaises(frame[c].all_risks_pf) # ""
        /\ frame[c].result.risk_distribution_data = "None"
        /\ RiskKeys \subseteq DOMAIN frame[c].result

\* C9: for every input that passes validation the trial loop runs to
\* completion without raising: no call raises once its trial count is chosen.
C9_LoopNeverRaises ==
    \A c \in Calls : frame[c].pc = "raised" => frame[c].n_sims = 0

\* C10: every division whose denominator can be zero has a fallback, so no NaN
\* and no infinity reaches a trial risk or a reported statistic.
C10_NoNaNOrInfinityReported ==
    \A c \in Calls :
        PassedValidation(c) =>
            /\ \A k \in 1..Len(frame[c].all_risks_pf) : IsFin(frame[c].all_risks_pf[k])
            /\ ReturnedResult(c) => \A key \in RiskKeys : IsFin(frame[c].result[key])

\* C11: for any sampled breathing rate, the jet-like and the puff-like
\* dilution formulas give the same dilution factor at the transition
\* distance, which is also the factor the engine uses there.
C11_DilutionContinuousAtTransition ==
    (probe.op = "dilution" /\ probe.stage = "out") =>
        /\ IsFin(probe.jet)
        /\ probe.jet = probe.puff
        /\ probe.Sx_sim = probe.jet

\* a breathing rate whose transition distance is positive, evaluated there
C11_Witness ==
    /\ probe.op = "dilution"
    /\ probe.stage = "out"
    /\ Lt(Zero, probe.x_transition)
    /\ Lt(F(1), probe.puff)

\* the decay returned a value for the probe's distance, velocity and humidity
DecayReturned == probe.op = "decay" /\ probe.stage = "out" /\ probe.raised = ""

\* 1 - 0.016 * x / u0, never below 0
LinearDecay(x, u0) ==
    IF Lt(Zero, Sub(F(1), Mul(Q(16, 1000), Div(x, u0))))
    THEN Sub(F(1), Mul(Q(16, 1000), Div(x, u0)))
    ELSE Zero

\* C12: short_range_viability_decay returns exactly 1.0, and never raises,
\* for every distance and jet velocity when the humidity is above 0.40.
C12_NoDecayAboveThreshold ==
    (probe.op = "decay" /\ probe.stage = "out" /\ Lt(Q(40, 100), probe.RH)) =>
        probe.raised = "" /\ probe.lambda_SR = F(1)

\* the decay evaluated just above the threshold, at a zero jet velocity
C12_Witness ==
    /\ DecayReturned
    /\ probe.RH = Q(4001, 10000)
    /\ IsZero(probe.u0)
    /\ Lt(Zero, probe.x)
    /\ probe.lambda_SR = F(1)

\* C13, as stated: at a humidity of exactly 0.40 no short-range decay occurs,
\* the factor is 1 for every distance and jet velocity.
C13_NoDecayAtThreshold ==
    (DecayReturned /\ probe.RH = Q(40, 100)) => probe.lambda_SR = F(1)

\* C13, amended: at a humidity of exactly 0.40, as below it, the linear decay
\* applies: the factor is max(0, 1 - 0.016 * x / u0), below 1 at every
\* positive distance; it is fixed at 1 only strictly above 0.40.
C13_DecayAtAndBelowThreshold ==
    DecayReturned =>
        /\ Le(probe.RH, Q(40, 100)) =>
              /\ probe.lambda_SR = LinearDecay(probe.x, probe.u0)
              /\ Lt(Zero, probe.x) => Lt(probe.lambda_SR, F(1))
        /\ Lt(Q(40, 100), probe.RH) => probe.lambda_SR = F(1)

\* the decay at the threshold humidity, between 0 and 1
C13_Witness ==
    /\ DecayReturned
    /\ probe.RH = Q(40, 100)
    /\ Lt(Zero, probe.lambda_SR)
    /\ Lt(probe.lambda_SR, F(1))

\* C14: deposition_fraction, with the default evaporation factor, is in
\* [0, 1] at every diameter of the particle grid.
C14_DepositionInUnitInterval ==
    (probe.op = "deposition" /\ probe.stage = "out") =>
        /\ probe.value = deposition_fraction(probe.idx)
        /\ IsFin(probe.value)
        /\ Le(Zero, probe.value)
        /\ Le(probe.value, F(1))

\* the deposition fraction at the largest diameter of the grid
C14_Witness ==
    /\ probe.op = "deposition"
    /\ probe.stage = "out"
    /\ probe.idx = GridLen
    /\ Lt(Zero, probe.value)

\* C15: the bin widths dDs are all positive and their sum equals the covered
\* diameter range Ds[last] - Ds[first], to within half a micron of rounding.
C15_WidthsSumToRange ==
    /\ (probe.op = "width" /\ probe.idx > 1) => Lt(Zero, probe.value)
    /\ (probe.op = "width" /\ probe.stage = "out") =>
          /\ Le(Sub(probe.total, Sub(Ds[GridLen], Ds[1])), Q(5, 10))
          /\ Le(Sub(Sub(Ds[GridLen], Ds[1]), probe.total), Q(5, 10))

\* C15, the part that holds: every bin width is positive, and the widths add
\* up to the range plus half the first and half the last interval.
C15_WidthsPositive ==
    /\ (probe.op = "width" /\ probe.idx > 1) => Lt(Zero, probe.value)
    /\ (probe.op = "width" /\ probe.stage = "out") =>
          Lt(Add(Sub(Ds[GridLen], Ds[1]), F(1)), probe.total)

\* a step of call c that handles an occupant drawn as not infectious
NotInfectiousStep(c) ==
    /\ frame[c].pc = "person"
    /\ frame'[c].pc # "raised"
    /\ frame'[c].trial.infectious_count = frame[c].trial.infectious_count

\* a step of call c that stores the risk of a trial without infectious occupant
NoInfectiousResponse(c) ==
    /\ frame[c].pc = "dose"
    /\ frame[c].trial.infectious_count = 0
    /\ frame'[c].pc # "raised"

\* C16: an occupant drawn as not infectious adds exactly zero to the trial
\* dose, and a trial without infectious occupant (occupant count 0 included)
\* has total dose 0 and a risk of exactly 0.
C16_NoInfectiousZeroRisk ==
    [][\A c \in Calls :
        /\ NotInfectiousStep(c) =>
              frame'[c].trial.total_dose = frame[c].trial.total_dose
        /\ NoInfectiousResponse(c) =>
              /\ frame[c].trial.total_dose = Zero
              /\ frame'[c].all_risks_pf[frame[c].i + 1] = Zero]_vars

\* C16, the part that holds: a non-infectious occupant leaves the dose as it
\* is, a trial without infectious occupant has total dose 0, and its risk is
\* exactly 0 when the immunity input is a number.
C16_NoInfectiousZeroDose ==
    [][\A c \in Calls :
        /\ NotInfectiousStep(c) =>
              frame'[c].trial.total_dose = frame[c].trial.total_dose
        /\ NoInfectiousResponse(c) =>
              /\ frame[c].trial.total_dose = Zero
              /\ ~IsNaN(frame[c].vals.immune) =>
                    frame'[c].all_risks_pf[frame[c].i + 1] = Zero]_vars

\* the protection factor of a trial was determined without an exception
ProtectionReturned ==
    probe.op = "protection" /\ probe.stage = "out" /\ probe.raised = ""

\* C17: the protection factor used in the dose-response law is greater than
\* 0 and at most 50, and an immunity input of 0 or below gives exactly 50
\* without sampling.
C17_ProtectionFactorInRange ==
    ProtectionReturned =>
        /\ Lt(Zero, probe.PF)
        /\ Le(probe.PF, PF_MAX)
        /\ Le(probe.immune_val, Zero) => (probe.PF = PF_MAX /\ ~probe.sampled)

\* C17, the part that holds: for an immunity input that is a number the
\* protection factor is in (0, 50], a sampled value above 50 is replaced by
\* 50, and an input of 0 or below gives 50 without sampling.
C17_ProtectionFactorOfNumber ==
    (ProtectionReturned /\ ~IsNaN(probe.immune_val)) =>
        /\ Lt(Zero, probe.PF)
        /\ Le(probe.PF, PF_MAX)
        /\ Le(probe.immune_val, Zero) => (probe.PF = PF_MAX /\ ~probe.sampled)
        /\ Lt(Zero, probe.immune_val) => probe.sampled
        /\ Lt(PF_MAX, ProtectionFactorUncapped(probe.immune_val, probe.z)) =>
              probe.PF = PF_MAX

\* call c is inside its loop over the trials
InTrials(c) == frame[c].pc \in {"trial", "person", "dose"}

\* the trial state a start of trial can give from the keyword arguments and
\* the draws of this trial alone
FreshTrials(kw) ==
    {[omicron_val_sim |-> sample_omicron_transmissibility_bayesian(z),
      ID50 |-> Uniform(F(10), F(100), u),
      BR |-> LogNormal(get_henriques_breathing_rate(kw.user_physical_activity),
                       BreathingSigma(kw.user_physical_activity), zb),
      total_dose |-> Zero, infectious_count |-> 0, person |-> 0] :
        z \in OmicronZ, u \in ID50U, zb \in BreathingZ}

\* C18: no trial depends on state of an earlier one. A trial starts from
\* nothing but the keyword arguments and its own draws, with the dose
\* accumulator and the infectious count reset; while the trials run the
\* validated inputs are not written and no slot of the risk array other than
\* the trial's own changes; the risk stored is the dose-response of this
\* trial's dose, threshold and protection factor, and the trial's state is
\* discarded when it ends.
C18_TrialsIndependent ==
    [][\A c \in Calls :
        /\ (frame[c].pc = "trial" /\ frame'[c].pc \in {"person", "dose"}) =>
              /\ frame[c].trial = NoTrial
              /\ frame'[c].trial \in FreshTrials(frame[c].kw)
        /\ InTrials(c) =>
              /\ frame'[c].vals = frame[c].vals
              /\ frame'[c].kw = frame[c].kw
              /\ frame'[c].n_sims = frame[c].n_sims
              /\ Len(frame'[c].all_risks_pf) = Len(frame[c].all_risks_pf)
              /\ \A j \in 1..Len(frame[c].all_risks_pf) :
                    (j # frame[c].i + 1 \/ frame[c].pc # "dose") =>
                        frame'[c].all_risks_pf[j] = frame[c].all_risks_pf[j]
        /\ (frame[c].pc = "dose" /\ frame'[c].pc # "raised") =>
              /\ frame'[c].trial = NoTrial
              /\ \E z \in ProtectionZ :
                    frame'[c].all_risks_pf[frame[c].i + 1] =
                        RiskPF(frame[c].trial.total_dose, frame[c].trial.ID50,
                               ProtectionFactor(frame[c].vals.immune, z))]_vars

\* a second trial under way with no infectious occupant so far, after a first
\* trial that stored a risk other than zero
C18_Witness ==
    \E c \in Calls :
        /\ frame[c].pc = "dose"
        /\ frame[c].i = 1
        /\ frame[c].all_risks_pf[1] # Zero
        /\ frame[c].trial.person > 0
        /\ frame[c].trial.infectious_count = 0
        /\ frame[c].trial.total_dose = Zero

\* C19, the part without probabilities: a call with every text argument
\* empty raises nothing and returns a result without the error key, whose
\* mean risk is a number from 0 to 1. (That the mean of the 25000 trials lies
\* strictly between 0 and 0.01 is a statement about the distribution of the
\* draws, which a behaviour of the state machine does not carry.)
C19_DefaultsSucceed ==
    \A c \in Calls :
        frame[c].args = AllEmpty =>
            /\ frame[c].pc # "raised"
            /\ frame[c].pc = "returned" =>
                  /\ "error" \notin DOMAIN frame[c].result
                  /\ IsFin(frame[c].result.risk)
                  /\ Le(Zero, frame[c].result.risk)
                  /\ Le(frame[c].result.risk, F(1))

\* a call with every argument empty has returned a mean risk above zero
C19_Witness ==
    \E c \in Calls :
        /\ frame[c].args = AllEmpty
        /\ frame[c].pc = "returned"
        /\ Lt(Zero, frame[c].result.risk)

\* the keys the docstring (lines 458-468) lists and the __main__ block reads
DocumentedKeys ==
    {"risk", "q_e", "ACH", "room_volume", "activity_label", "x_transition",
     "stage", "Sx", "inputs"}

\* C21: a successful call returns a dictionary that contains the keys risk,
\* q_e, ACH, room_volume, activity_label, x_transition, stage, Sx and inputs.
C21_DocumentedKeysPresent ==
    \A c \in Calls :
        ReturnedResult(c) => DocumentedKeys \subseteq DOMAIN frame[c].result

\* C21, the part that holds: of the documented keys a successful result holds
\* risk, q_e, ACH, room_volume, activity_label and inputs, and none of
\* x_transition, stage and Sx.
C21_KeysOfResult ==
    \A c \in Calls :
        ReturnedResult(c) =>
            DocumentedKeys \cap DOMAIN frame[c].result =
                {"risk", "q_e", "ACH", "room_volume", "activity_label", "inputs"}

\* C22: with the ACH input empty the engine uses 20 air changes per hour and
\* echoes that value as result["ACH"].
C22_DefaultACHIsTwenty ==
    \A c \in Calls :
        (ReturnedResult(c) /\ Strip(frame[c].args.ACH) = "") =>
            /\ frame[c].vals.ACH = F(20)
            /\ frame[c].result.ACH = F(20)

\* C22, what the code does: with the ACH input empty the engine uses 1 air
\* change per hour, the default of line 487, and echoes it.
C22_DefaultACHIsOne ==
    \A c \in Calls :
        (ReturnedResult(c) /\ Strip(frame[c].args.ACH) = "") =>
            /\ frame[c].vals.ACH = F(1)
            /\ frame[c].result.ACH = F(1)

\* the validator of the probe has returned
Converts == probe.op = "convert" /\ probe.stage = "out"

\* the stripped text of the probe is one its conversion accepts
Parses ==
    \/ probe.fn = "safe_float" /\ Strip(probe.value) \in FloatTexts
    \/ probe.fn = "safe_int" /\ Strip(probe.value) \in IntTexts

\* the default the validator of the probe was given
DefaultGiven ==
    IF probe.fn = "safe_float" THEN probe.default ELSE probe.int_default

\* C23: safe_float and safe_int return for every input value, never raising:
\* (converted value, "") when the stripped text parses, (default, "") when
\* the input is None, empty or only white space, and (default, a message
\* naming the input) when the text does not parse.
C23_ValidatorsTotal ==
    Converts =>
        /\ Len(probe.out) = 2
        /\ Parses =>
              /\ probe.out[2] = NoErr
              /\ probe.out[1] = IF probe.fn = "safe_float"
                                THEN FloatOf(Strip(probe.value))
                                ELSE IntOf(Strip(probe.value))
        /\ probe.value \in {None, "", Blank} => probe.out = <<DefaultGiven, NoErr>>
        /\ (Strip(probe.value) # "" /\ ~Parses) =>
              /\ probe.out[1] = DefaultGiven
              /\ probe.out[2] # NoErr
              /\ probe.out[2][2] = probe.value

\* safe_int has rejected a text that float() converts
C23_Witness ==
    /\ Converts
    /\ probe.fn = "safe_int"
    /\ probe.value = "0.5"
    /\ probe.out[1] = 7
    /\ probe.out[2] # NoErr

\* the dilution of an occupant was computed without an exception
RegimeSelected == probe.op = "regime" /\ probe.stage = "out" /\ probe.raised = ""

\* C24: the jet-like formula is used exactly when x < transition and the
\* puff-like formula exactly when x >= transition; every occupant is in
\* exactly one of the two regimes.
C24_RegimeByDistance ==
    RegimeSelected =>
        /\ probe.regime \in {"jet-like", "puff-like"}
        /\ probe.regime = "jet-like" <=> Lt(probe.x_eff, probe.x_transition)
        /\ probe.regime = "puff-like" <=> Le(probe.x_transition, probe.x_eff)
        /\ probe.regime = "jet-like" => probe.Sx_sim = JetDilution(probe.x_eff)
        /\ probe.regime = "puff-like" =>
              probe.Sx_sim = PuffDilution(probe.x_eff, probe.x_transition)

\* C24, the part that holds: the regime follows from the one comparison
\* x < transition, jet-like when it is true and puff-like when it is false,
\* which for a distance that is a number is x >= transition.
C24_RegimeByComparison ==
    RegimeSelected =>
        /\ probe.regime \in {"jet-like", "puff-like"}
        /\ probe.regime = "jet-like" <=> Lt(probe.x_eff, probe.x_transition)
        /\ ~IsNaN(probe.x_eff) =>
              (probe.regime = "puff-like" <=> Le(probe.x_transition, probe.x_eff))
        /\ probe.regime = "jet-like" => probe.Sx_sim = JetDilution(probe.x_eff)
        /\ probe.regime = "puff-like" =>
              probe.Sx_sim = PuffDilution(probe.x_eff, probe.x_transition)

\* the emission of the probe's vocal activity was evaluated
Emitted == probe.op = "emission" /\ probe.stage = "out"

\* wB * B + wL * L + wO * O at the grid index idx, the modes of weight zero
\* left out
WeightedModes(idx, wB, wL, wO) ==
    LET Plus(result, w, term) == IF w = 0 THEN result ELSE Add(result, Mul(F(w), term))
    IN  Plus(Plus(Plus(Zero, wB, ModeTerms.B[idx]), wL, ModeTerms.L[idx]),
             wO, ModeTerms.O[idx])

\* C25: breathing emits the bronchiolar mode only (weights 1, 0, 0), speaking
\* all three modes with weight 1, loud speaking or shouting the laryngeal and
\* oral modes five times with the bronchiolar weight 1, and a vocalization
\* name that is not recognized is treated as speaking; at every diameter the
\* emission of loud speech >= speaking >= breathing.
C25_EmissionWeights ==
    Emitted =>
        /\ probe.vocal_activity \in {"breathing", "just_breathing"} =>
              probe.emission = WeightedModes(probe.idx, 1, 0, 0)
        /\ probe.vocal_activity = "speaking" =>
              probe.emission = WeightedModes(probe.idx, 1, 1, 1)
        /\ probe.vocal_activity \in {"loudly_speaking", "loud_speaking", "shouting"} =>
              probe.emission = WeightedModes(probe.idx, 1, 5, 5)
        /\ probe.vocal_activity \in {"singing", ""} =>
              probe.emission = WeightedModes(probe.idx, 1, 1, 1)
        /\ Le(emission_spectrum_henriques(probe.idx, "1"),
              emission_spectrum_henriques(probe.idx, "2"))
        /\ Le(emission_spectrum_henriques(probe.idx, "2"),
              emission_spectrum_henriques(probe.idx, "5"))
        /\ Le(WeightedModes(probe.idx, 1, 0, 0), probe.emission)
        /\ Le(probe.emission, WeightedModes(probe.idx, 1, 5, 5))

\* a name that is not recognized emits more than breathing and less than
\* shouting at the largest diameter
C25_Witness ==
    /\ Emitted
    /\ probe.vocal_activity = "singing"
    /\ probe.idx = GridLen
    /\ Lt(WeightedModes(probe.idx, 1, 0, 0), probe.emission)
    /\ Lt(probe.emission, WeightedModes(probe.idx, 1, 5, 5))

\* a is a number from lo to hi
Within(a, lo, hi) == IsFin(a) /\ Le(lo, a) /\ Le(a, hi)

\* C26: every sampled quantity is inside its range: the transmissibility
\* multiplier in [1.5, 8.0], the log10 viral load in [2, 10], the
\* infectiousness ratio in [0.01, 0.60] and the infectious dose ID50 in
\* [10, 100]; in the engine every trial holds a multiplier and an ID50 of
\* these ranges.
C26_SamplesInRange ==
    /\ (probe.op = "samples" /\ probe.stage = "out") =>
          /\ Within(probe.omicron_val_sim, Q(15, 10), F(8))
          /\ Within(probe.vlin_log10, F(2), F(10))
          /\ Within(probe.f_inf, Q(1, 100), Q(60, 100))
          /\ Within(probe.ID50, F(10), F(100))
    /\ \A c \in Calls :
          frame[c].pc \in {"person", "dose"} =>
              /\ Within(frame[c].trial.omicron_val_sim, Q(15, 10), F(8))
              /\ Within(frame[c].trial.ID50, F(10), F(100))

\* samples at the bounds: a multiplier clipped to 8, a log10 viral load
\* truncated to 2, the smallest ID50
C26_Witness ==
    /\ probe.op = "samples"
    /\ probe.stage = "out"
    /\ probe.omicron_val_sim = F(8)
    /\ probe.vlin_log10 = F(2)
    /\ probe.ID50 = F(10)
    /\ Lt(Q(1, 100), probe.f_inf)

\* the percentile keys of a result from the lowest to the highest
PercentileKeys ==
    <<"mc_ci_0_5", "mc_ci_5", "mc_ci_25", "mc_median", "mc_ci_75", "mc_ci_95",
      "mc_ci_99_5">>

\* the percentile bounds of the result r are in order
Ordered(r) ==
    \A k \in 1..(Len(PercentileKeys) - 1) :
        Le(r[PercentileKeys[k]], r[PercentileKeys[k + 1]])

\* risk, mc_mean and mc_mean_pf are one value, and each back-compat key holds
\* the value of its mc_pf_ counterpart
BackCompat(r) ==
    /\ r.risk = r.mc_mean_pf
    /\ r.mc_mean = r.mc_mean_pf
    /\ r.mc_median = r.mc_pf_median
    /\ r.mc_ci_5 = r.mc_pf_ci_5
    /\ r.mc_ci_95 = r.mc_pf_ci_95
    /\ r.mc_ci_25 = r.mc_pf_ci_25
    /\ r.mc_ci_75 = r.mc_pf_ci_75
    /\ r.mc_ci_0_5 = r.mc_pf_ci_0_5
    /\ r.mc_ci_99_5 = r.mc_pf_ci_99_5

\* C27: in every successful result mc_ci_0_5 <= mc_ci_5 <= mc_ci_25 <=
\* mc_median <= mc_ci_75 <= mc_ci_95 <= mc_ci_99_5, risk equals mc_mean equals
\* mc_mean_pf, and each back-compat key equals its mc_pf_ counterpart.
C27_PercentilesOrdered ==
    \A c \in Calls :
        ReturnedResult(c) =>
            /\ Ordered(frame[c].result)
            /\ BackCompat(frame[c].result)

\* C27, the part that holds: the keys are copies of one another in every
\* successful result, and the bounds are in order whenever the median is a
\* number.
C27_OrderedNumbers ==
    \A c \in Calls :
        ReturnedResult(c) =>
            /\ BackCompat(frame[c].result)
            /\ ~IsNaN(frame[c].result.mc_median) => Ordered(frame[c].result)

\* the legacy arguments of the engine
LegacyFields == {"C0", "Q0", "p", "gamma", "omicron"}

\* another numerically valid text for a legacy argument
OtherLegacyText(t) == IF t = "abc" THEN "abc" ELSE IF t = "2" THEN "" ELSE "2"

\* the argument list a with every legacy argument given another valid text
OtherLegacyArgs(a) ==
    [f \in FieldSet |-> IF f \in LegacyFields THEN OtherLegacyText(a[f]) ELSE a[f]]

\* the keyword arguments with another CO2 level and another activity_choice
OtherLegacyKw(kw) == [kw EXCEPT !.CO2 = F(1200), !.activity_choice = "4"]

\* the local state fr of a call that was given other legacy values
OtherLegacy(fr) ==
    [fr EXCEPT !.kw = OtherLegacyKw(@),
               !.vals = [f \in DOMAIN @ |->
                            IF f \in LegacyFields THEN Add(@[f], F(3)) ELSE @[f]]]

\* what a call computes: its position, the trial count, the risk array, the
\* trial in progress, the exception, and every result key but the echoed
\* inputs and activity_label
Simulation(fr) ==
    [pc |-> fr.pc, n_sims |-> fr.n_sims, i |-> fr.i,
     all_risks_pf |-> fr.all_risks_pf, trial |-> fr.trial, exc |-> fr.exc,
     statistics |-> [k \in (DOMAIN fr.result) \ {"inputs", "activity_label"} |->
                        fr.result[k]]]

\* C28: the legacy inputs C0, Q0, p, gamma, omicron, CO2 and activity_choice
\* do not influence the simulation: from the same position of the generator
\* and with the same variates drawn, the call and a call given other valid
\* values of the legacy inputs enter the loop alike, and every step of the
\* loop and the summary leave them with the same risk array, the same trial
\* and the same statistics.
C28_LegacyInputsUnused ==
    \A c \in Calls :
        LET fr == frame[c]
            other == OtherLegacy(fr)
        IN  /\ fr.pc # "idle" =>
                    Simulation(Entered([IdleFrame EXCEPT !.kw = OtherLegacyKw(@)],
                                       OtherLegacyArgs(fr.args), fr.rng0))
                        = Simulation(Entered(IdleFrame, fr.args, fr.rng0))
            /\ fr.pc = "trial" =>
                    \A z \in OmicronZ, u \in ID50U, zb \in BreathingZ :
                        Simulation(TrialDraws(other, z, u, zb))
                            = Simulation(TrialDraws(fr, z, u, zb))
            /\ fr.pc = "person" =>
                    /\ other.vals.covid_prevalence = fr.vals.covid_prevalence
                    /\ \A w \in WeibullW, uf \in FInfU, zb \in BreathingZ, um \in MaskU :
                            Simulation(InfectiousPerson(other, w, uf, zb, um, AfterPerson(c)))
                                = Simulation(InfectiousPerson(fr, w, uf, zb, um,
                                                              AfterPerson(c)))
            /\ (fr.pc = "dose" /\ ~LogRaises(fr.vals.immune)) =>
                    /\ other.vals.immune = fr.vals.immune
                    /\ \A z \in ProtectionZ :
                            Simulation(Respond(other, ProtectionFactor(other.vals.immune, z),
                                               AfterTrial(c)))
                                = Simulation(Respond(fr, ProtectionFactor(fr.vals.immune, z),
                                                     AfterTrial(c)))
            /\ fr.pc = "summarize" =>
                    Simulation(Summarized(other)) = Simulation(Summarized(fr))

\* a call given a legacy input of 2 has returned statistics over a risk
\* array with a risk above zero
C28_Witness ==
    \E c \in Calls :
        /\ ReturnedResult(c)
        /\ \E f \in LegacyFields : frame[c].args[f] = "2"
        /\ \E k \in DOMAIN frame[c].all_risks_pf : Lt(Zero, frame[c].all_risks_pf[k])

\* the fewest variates the call with the local state fr has drawn: three at
\* the start of each trial and one for each person of range(N_val)
FewestDrawn(fr) ==
    LET N_val == IF fr.vals = << >> THEN 0 ELSE IF fr.vals.N > 0 THEN fr.vals.N ELSE 0
    IN  fr.i * (3 + N_val)
            + (IF fr.pc \in {"person", "dose"} THEN 3 + fr.trial.person ELSE 0)

\* C29: when the handler runs two engine calls in the pool of two workers,
\* each step of a call writes the risk array and the result dictionary of
\* that call alone, and the one generator of the process is shared: its
\* position counts the variates drawn by both calls, so the position a call
\* draws from depends on how far the other call has run.
C29_SharedGeneratorOnly ==
    /\ [](probe.op = "handler" =>
            rng >= FewestDrawn(frame[1]) + FewestDrawn(frame[2]))
    /\ [][(probe.op = "handler" /\ probe.stage = "running" /\ probe' = probe) =>
            \E c \in Workers :
                /\ \A d \in Workers \ {c} : frame'[d] = frame[d]
                /\ rng' # rng => frame[c].pc \in {"trial", "person", "dose"}]_vars

\* the first call is about to make the first draws of its first trial, and
\* the other call, part-way through a trial, has drawn before it
C29_Witness ==
    /\ probe.op = "handler"
    /\ Len(probe.statuses) = 2
    /\ frame[1].pc = "trial"
    /\ frame[1].i = 0
    /\ frame[2].pc = "person"
    /\ rng >= 3

\* the statistics of the result that the handler reports as averages
AveragedStatistics ==
    {"risk", "mc_mean", "mc_median", "mc_ci_5", "mc_ci_95", "mc_ci_25", "mc_ci_75",
     "mc_ci_0_5", "mc_ci_99_5"}

\* the handler ran two engine calls and both returned a result
BothSucceeded ==
    /\ probe.op = "handler"
    /\ Len(probe.statuses) = 2
    /\ \A c \in Workers : ReturnedResult(c)

\* C30: when the handler runs two engine calls (immunocompromised 'unsure',
\* or 'Yes' with severity 'unsure') and both succeed, it produces a result
\* whose risk, mc_mean, mc_median and mc_ci_* bounds are the arithmetic means
\* of the two calls' values; every key read for the averaging is in the
\* engine results, so the averaging completes without error.
C30_AveragingCompletes ==
    (BothSucceeded /\ probe.stage # "running") =>
        /\ probe.stage = "computed"
        /\ \A k \in AveragedStatistics :
                probe.result[k] = Div(Add(frame[1].result[k], frame[2].result[k]), F(2))

\* C30, what holds instead: both results hold every statistic the handler
\* reports, and the averaging of two successful results ends with a
\* KeyError and no result.
C30_AveragingRaisesKeyError ==
    BothSucceeded =>
        /\ \A c \in Workers : AveragedStatistics \subseteq DOMAIN frame[c].result
        /\ \A c \in Workers : {"old_risk", "new_risk"} \cap DOMAIN frame[c].result = {}
        /\ probe.stage # "running" =>
                /\ probe.stage = "raised"
                /\ probe.exc = "KeyError"
                /\ DOMAIN probe.result = {}

\* two successful calls were collected
C30_Collected ==
    /\ BothSucceeded
    /\ probe.stage # "running"
    /\ \E c \in Workers : frame[c].trial = NoTrial /\ frame[c].vals.N > 0

=============================================================================
